---- MODULE Spec2Model ----
(***************************************************************************)
(* Inventory reconciliation engine of the back-office tool: the count      *)
(* page ("kiem-hang-chuyen-kho": load, scan, manual edit, aggregate) and   *)
(* the checklist / search pages ("kiem-ke", "kiem-tra-ton-kho": load,      *)
(* toggle, filter, navigate, search), and the accounts and tiers that      *)
(* give access to the pages (login, logout, session restore, feature       *)
(* click).                                                                  *)
(*                                                                         *)
(* JavaScript strings are sequences of one-character strings, so that      *)
(* trim / quote stripping / case folding are computed, not assumed.        *)
(* JavaScript numbers are records: Num(n), NaN; null is Null.              *)
(***************************************************************************)
EXTENDS Integers, Sequences, FiniteSets, TLC

VARIABLES
    \* count page (useState slices, part_000:329-334)
    excelCheckItems,      \* ExcelCheckItem[]
    excelCheckFileName,   \* string
    scanQuery,            \* string (the scan input box)
    scanStatus,           \* {type, message}
    lastScannedIndex,     \* number | null (1-based here)
    highlightTimers,      \* pending setTimeout(() => setLastScannedIndex(null), 1000)
    \* count page, useMemo caches (part_000:1227-1245)
    excelCheckStats,
    mismatchedItems,
    \* history variable: the successful scans since the last load
    scanRun,
    \* state updates enqueued by scan submits and not rendered yet
    unrendered,
    \* checklist and search pages (useState slices, part_000:312-323)
    inventoryItems,       \* InventoryItem[]
    fileName,             \* string
    imeiFilter,           \* 'all' | 'with_imei' | 'without_imei'
    statusFilter,         \* 'all' | string
    categoryFilter,       \* 'all' | string
    availableStatuses,
    availableCategories,
    searchQuery,          \* string (the search input box)
    searchHistory,        \* {query, result}[], newest first
    scrollTarget,         \* originalIndex handed to the scroll timer, 0 for none
    \* history variable: the previous event when it was a toggle
    lastToggle,
    \* file reads started by handleFileImport whose onload has not run yet
    pendingReads,
    \* history variable: the name of the file whose rows built inventoryItems
    builtFrom,
    currentPage,          \* Page (part_000:292)
    \* accounts and session (useState slices, part_000:277-278; localStorage)
    isAuthenticated,      \* boolean
    currentUser,          \* User | null
    savedUser,            \* localStorage 'currentUser'
    vipExpired,           \* the clock has passed the vipExpiry of the VIP account
    \* history variable: the feature whose click was refused last (the alert
    \* of handleFeatureClick)
    lastRefused

countVars == <<excelCheckItems, excelCheckFileName, scanQuery, scanStatus,
               lastScannedIndex, highlightTimers, excelCheckStats,
               mismatchedItems, scanRun, unrendered>>

invVars == <<inventoryItems, fileName, imeiFilter, statusFilter, categoryFilter,
             availableStatuses, availableCategories, searchQuery, searchHistory,
             scrollTarget, lastToggle>>

importVars == <<pendingReads, builtFrom>>

authVars == <<isAuthenticated, currentUser, savedUser, vipExpired, lastRefused>>

vars == <<countVars, invVars, importVars, currentPage, authVars>>

----------------------------------------------------------------------------
(* Bounds of the model *)

MaxRows == 2
MaxQty == 3
MaxTimers == 2
MaxHistory == 2
MaxInvRows == 3
MaxUnrendered == 2
MaxPending == 2

----------------------------------------------------------------------------
(* JavaScript values *)

Undefined == <<"undefined">>
Null == [k |-> "null", v |-> 0]
NaN == [k |-> "NaN", v |-> 0]
Num(n) == [k |-> "num", v |-> n]
IsNum(x) == x.k = "num"

\* x + y and x - y on numbers (NaN is absorbing)
JsAdd(x, y) == IF IsNum(x) /\ IsNum(y) THEN Num(x.v + y.v) ELSE NaN
JsSub(x, y) == IF IsNum(x) /\ IsNum(y) THEN Num(x.v - y.v) ELSE NaN

\* x || d for a cell value: undefined and '' are falsy
OrElse(x, d) == IF x = Undefined \/ x = <<>> THEN d ELSE x

NA == <<"N", "/", "A">>
Quote == "'"

IsSpace(c) == c = " "
IsDigit(c) == c \in {"0", "1", "2", "3", "4", "5", "6", "7", "8", "9"}
DigitVal(c) ==
    CASE c = "0" -> 0 [] c = "1" -> 1 [] c = "2" -> 2 [] c = "3" -> 3
      [] c = "4" -> 4 [] c = "5" -> 5 [] c = "6" -> 6 [] c = "7" -> 7
      [] c = "8" -> 8 [] c = "9" -> 9

LowerChar(c) ==
    CASE c = "A" -> "a" [] c = "B" -> "b" [] c = "L" -> "l" [] c = "N" -> "n"
      [] c = "O" -> "o" [] c = "T" -> "t" [] c = "V" -> "v" [] c = "X" -> "x"
      [] c = "Z" -> "z" [] OTHER -> c

ToLowerCase(s) == [i \in 1..Len(s) |-> LowerChar(s[i])]

\* variant of Trim: the text as it is
Untrimmed(s) == s

RECURSIVE TrimStart(_)
TrimStart(s) == IF s # <<>> /\ IsSpace(Head(s)) THEN TrimStart(Tail(s)) ELSE s

RECURSIVE TrimEnd(_)
TrimEnd(s) ==
    IF s # <<>> /\ IsSpace(s[Len(s)]) THEN TrimEnd(SubSeq(s, 1, Len(s) - 1)) ELSE s

Trim(s) == TrimEnd(TrimStart(s))

\* if (s.startsWith("'")) s = s.substring(1)
StripQuote(s) == IF s # <<>> /\ Head(s) = Quote THEN Tail(s) ELSE s

\* s.includes(q)
Includes(s, q) ==
    \E i \in 1..(Len(s) + 1) :
        /\ i + Len(q) - 1 <= Len(s)
        /\ SubSeq(s, i, i + Len(q) - 1) = q

StartsWith(s, q) == Len(q) <= Len(s) /\ SubSeq(s, 1, Len(q)) = q

\* s.replace(/,/g, '')
RemoveCommas(s) == SelectSeq(s, LAMBDA c : c # ",")

RECURSIVE DigitsValue(_)
DigitsValue(s) ==
    IF s = <<>> THEN 0 ELSE 10 * DigitsValue(SubSeq(s, 1, Len(s) - 1)) + DigitVal(s[Len(s)])

AllDigits(s) == s # <<>> /\ \A i \in 1..Len(s) : IsDigit(s[i])

\* Number(s): whitespace is trimmed, '' is 0, a signed decimal integer is its
\* value, anything else (within the alphabet of the model) is NaN
Number(s) ==
    LET t == Trim(s) IN
    IF t = <<>> THEN Num(0)
    ELSE IF AllDigits(t) THEN Num(DigitsValue(t))
    ELSE IF Head(t) \in {"-", "+"} /\ AllDigits(Tail(t))
         THEN Num((IF Head(t) = "-" THEN -1 ELSE 1) * DigitsValue(Tail(t)))
    ELSE NaN

RECURSIVE DigitPrefix(_)
DigitPrefix(s) ==
    IF s # <<>> /\ IsDigit(Head(s)) THEN <<Head(s)>> \o DigitPrefix(Tail(s)) ELSE <<>>

\* parseInt(s, 10): leading whitespace skipped, optional sign, the longest digit
\* prefix; NaN when there is no digit
ParseInt(s) ==
    LET t == TrimStart(s)
        signed == t # <<>> /\ Head(t) \in {"-", "+"}
        body == IF signed THEN Tail(t) ELSE t
        digits == DigitPrefix(body)
    IN  IF digits = <<>> THEN NaN
        ELSE Num((IF signed /\ Head(t) = "-" THEN -1 ELSE 1) * DigitsValue(digits))

----------------------------------------------------------------------------
(* Rows of a parsed sheet: a function from the column headers present in   *)
(* the row to the cell text (sheet_to_json with raw: false omits empty     *)
(* cells).                                                                 *)

findValue(row, key) == IF key \in DOMAIN row THEN row[key] ELSE Undefined

IsWordChar(c) == c \notin {" ", "'", ",", "-", "+", "/", "|"}

\* /\btv\b/.test(s)
HasWordTv(s) ==
    \E i \in 1..Len(s) :
        /\ i + 1 <= Len(s)
        /\ s[i] = "t" /\ s[i + 1] = "v"
        /\ (i = 1 \/ ~IsWordChar(s[i - 1]))
        /\ (i + 1 = Len(s) \/ ~IsWordChar(s[i + 2]))

getCategoryFromProductName(name) ==
    LET lowerName == Trim(ToLowerCase(name)) IN
    IF lowerName = <<>> THEN <<"default">>
    ELSE IF \/ StartsWith(lowerName, <<"t", "i", "v", "i">>)
            \/ StartsWith(lowerName, <<"t", "i", " ", "v", "i">>)
            \/ StartsWith(lowerName, <<"t", "v">>)
            \/ HasWordTv(lowerName)
         THEN <<"t", "i", "v", "i">>
    ELSE IF Includes(lowerName, <<"l", "o", "a">>) THEN <<"l", "o", "a">>
    ELSE <<"default">>

finalCategory(row) ==
    LET derived == getCategoryFromProductName(OrElse(findValue(row, "TenSanPham"), <<>>)) IN
    IF derived # <<"default">> THEN derived
    ELSE OrElse(findValue(row, "NganhHang"), NA)

----------------------------------------------------------------------------
(* Count page *)

LoadExcelCheckRow(row) ==
    LET productCode == StripQuote(Trim(OrElse(findValue(row, "MaSanPham"), NA)))
        rawImei == findValue(row, "IMEI_1")
        imei == IF rawImei = Undefined \/ rawImei = <<>> THEN rawImei
                ELSE StripQuote(Trim(rawImei))
    IN  [ productCode |-> productCode,
          productName |-> OrElse(findValue(row, "TenSanPham"), NA),
          fileQuantity |-> Number(RemoveCommas(OrElse(findValue(row, "SoLuong"), <<"0">>))),
          actualQuantity |-> Null,
          imei |-> IF imei = Undefined \/ imei = <<>> THEN Undefined ELSE imei,
          category |-> finalCategory(row) ]

LoadExcelCheckItems(rows) == [i \in 1..Len(rows) |-> LoadExcelCheckRow(rows[i])]

\* cleanString of handleScanSubmit
cleanString(str) ==
    IF str = Undefined \/ str = <<>> THEN <<>>
    ELSE ToLowerCase(StripQuote(Trim(str)))

sanitizedQuery(query) == ToLowerCase(StripQuote(query))

\* variant of FirstIndex: the highest index (findLastIndex)
LastIndex(S) == IF S = {} THEN 0 ELSE CHOOSE i \in S : \A j \in S : i >= j

\* Array.prototype.findIndex: the lowest index satisfying P, 0 for -1
FirstIndex(S) == IF S = {} THEN 0 ELSE CHOOSE i \in S : \A j \in S : i <= j

ProductCodeIndex(items, sq) ==
    FirstIndex({i \in 1..Len(items) : cleanString(items[i].productCode) = sq})

ImeiIndex(items, sq) ==
    FirstIndex({i \in 1..Len(items) : cleanString(items[i].imei) = sq})

\* variant of ScanFoundIndex: IMEI first, product code second
ScanFoundIndexImeiFirst(items, sq) ==
    IF ImeiIndex(items, sq) # 0 THEN ImeiIndex(items, sq)
    ELSE ProductCodeIndex(items, sq)

\* variant of ScanFoundIndex: a scan that matches no key falls back to the
\* first record whose name contains it, as a search submit does
ScanFoundIndexWithName(items, sq) ==
    IF ProductCodeIndex(items, sq) # 0 THEN ProductCodeIndex(items, sq)
    ELSE IF ImeiIndex(items, sq) # 0 THEN ImeiIndex(items, sq)
    ELSE FirstIndex({i \in 1..Len(items) : Includes(ToLowerCase(items[i].productName), sq)})

\* foundIndex of handleScanSubmit: product code first, IMEI second
ScanFoundIndex(items, sq) ==
    IF ProductCodeIndex(items, sq) # 0 THEN ProductCodeIndex(items, sq)
    ELSE ImeiIndex(items, sq)

\* variant of Incremented: the first scan of a record opens its count at 0
IncrementedFromNull(q) == IF IsNum(q) THEN Num(q.v + 1) ELSE Num(0)

\* variant of Incremented: the scan records one unit instead of adding one
IncrementedOverwrite(q) == Num(1)

\* (itemToUpdate.actualQuantity || 0) + 1
Incremented(q) == IF IsNum(q) THEN Num(q.v + 1) ELSE Num(1)

\* variant of StatsStep: a surplus counts as matched
StatsStepSurplusMatches(acc, item) ==
    LET total == JsAdd(acc.totalFileQuantity, item.fileQuantity)
        difference == JsSub(item.actualQuantity, item.fileQuantity)
        matches == IsNum(difference) /\ difference.v >= 0
    IN
    IF item.actualQuantity # Null
    THEN [ totalFileQuantity |-> total,
           totalActualQuantity |-> JsAdd(acc.totalActualQuantity, item.actualQuantity),
           matchedCount |-> acc.matchedCount + (IF matches THEN 1 ELSE 0),
           mismatchedCount |-> acc.mismatchedCount + (IF matches THEN 0 ELSE 1) ]
    ELSE [acc EXCEPT !.totalFileQuantity = total]

\* variant of StatsStep: the expected quantity of a record is added only once
\* the record has been observed
StatsStepObservedOnly(acc, item) ==
    IF item.actualQuantity # Null
    THEN [ totalFileQuantity |-> JsAdd(acc.totalFileQuantity, item.fileQuantity),
           totalActualQuantity |-> JsAdd(acc.totalActualQuantity, item.actualQuantity),
           matchedCount |-> acc.matchedCount
               + (IF JsSub(item.actualQuantity, item.fileQuantity) = Num(0) THEN 1 ELSE 0),
           mismatchedCount |-> acc.mismatchedCount
               + (IF JsSub(item.actualQuantity, item.fileQuantity) = Num(0) THEN 0 ELSE 1) ]
    ELSE acc

\* variant of StatsStep: a record whose difference is not a number is counted
\* neither as matched nor as mismatched
StatsStepNumericOnly(acc, item) ==
    LET total == JsAdd(acc.totalFileQuantity, item.fileQuantity)
        difference == JsSub(item.actualQuantity, item.fileQuantity)
    IN
    IF item.actualQuantity # Null
    THEN [ totalFileQuantity |-> total,
           totalActualQuantity |-> JsAdd(acc.totalActualQuantity, item.actualQuantity),
           matchedCount |-> acc.matchedCount + (IF difference = Num(0) THEN 1 ELSE 0),
           mismatchedCount |-> acc.mismatchedCount
               + (IF IsNum(difference) /\ difference # Num(0) THEN 1 ELSE 0) ]
    ELSE [acc EXCEPT !.totalFileQuantity = total]

\* the callback of excelCheckItems.reduce
StatsStep(acc, item) ==
    LET total == JsAdd(acc.totalFileQuantity, item.fileQuantity) IN
    IF item.actualQuantity # Null
    THEN [ totalFileQuantity |-> total,
           totalActualQuantity |-> JsAdd(acc.totalActualQuantity, item.actualQuantity),
           matchedCount |-> acc.matchedCount
               + (IF JsSub(item.actualQuantity, item.fileQuantity) = Num(0) THEN 1 ELSE 0),
           mismatchedCount |-> acc.mismatchedCount
               + (IF JsSub(item.actualQuantity, item.fileQuantity) = Num(0) THEN 0 ELSE 1) ]
    ELSE [acc EXCEPT !.totalFileQuantity = total]

RECURSIVE StatsReduce(_, _)
StatsReduce(items, acc) ==
    IF items = <<>> THEN acc ELSE StatsReduce(Tail(items), StatsStep(acc, Head(items)))

\* the initial value handed to reduce
InitialStats ==
    [ totalFileQuantity |-> Num(0), totalActualQuantity |-> Num(0),
      matchedCount |-> 0, mismatchedCount |-> 0 ]

\* variant of ComputeExcelCheckStats: the accumulator starts from the cached result
ComputeExcelCheckStatsAccumulating(items) == StatsReduce(items, excelCheckStats)

\* useMemo excelCheckStats
ComputeExcelCheckStats(items) == StatsReduce(items, InitialStats)

\* variant of ComputeMismatchedItems: every observed record is listed
ComputeMismatchedItemsObserved(items) ==
    SelectSeq(items, LAMBDA item : item.actualQuantity # Null)

\* useMemo mismatchedItems
ComputeMismatchedItems(items) ==
    SelectSeq(items, LAMBDA item :
        item.actualQuantity # Null /\ item.actualQuantity # item.fileQuantity)

\* {type: 'idle', message: 'San sang quet...'}
IdleStatus == [type |-> "idle", text |-> "ready", arg |-> <<>>]

\* the variant of NotFoundStatus that reports the query as it is compared
NotFoundStatusSanitised(query) ==
    [type |-> "error", text |-> "notFound",
     arg |-> ToLowerCase(IF StartsWith(query, <<Quote>>) THEN Tail(query) ELSE query)]

\* {type: 'error', message: `Khong tim thay san pham voi ma: ${query}`}
NotFoundStatus(query) == [type |-> "error", text |-> "notFound", arg |-> query]

\* {type: 'success', message: `Da cap nhat: ${itemToUpdate.productName}`}
UpdatedStatus(productName) == [type |-> "success", text |-> "updated", arg |-> productName]

\* the fixed part of each message, written without its diacritics
MessagePrefix(text) ==
    CASE text = "notFound" ->
            <<"K", "h", "o", "n", "g", " ", "t", "i", "m", " ", "t", "h", "a", "y", " ",
              "s", "a", "n", " ", "p", "h", "a", "m", " ", "v", "o", "i", " ",
              "m", "a", ":", " ">>
      [] text = "updated" ->
            <<"D", "a", " ", "c", "a", "p", " ", "n", "h", "a", "t", ":", " ">>
      [] OTHER ->
            <<"S", "a", "n", " ", "s", "a", "n", "g", " ", "q", "u", "e", "t", ".", ".", ".">>

\* scanStatus.message, the line shown under the scan input
ScanStatusMessage(status) == MessagePrefix(status.text) \o status.arg

\* the useMemo caches after a render with record list `items`
Rendered(items) ==
    /\ excelCheckStats' = ComputeExcelCheckStats(items)
    /\ mismatchedItems' = ComputeMismatchedItems(items)

NoRun == [key |-> <<>>, n |-> 0, pure |-> TRUE, scans |-> 0, edited |-> FALSE]

(* Inputs of the count page *)

S_A1 == <<"A", "1">>
S_B2 == <<"B", "2">>
S_TV == <<"T", "V">>
S_loa == <<"l", "o", "a">>

CountRows ==
    { [MaSanPham |-> S_A1, TenSanPham |-> S_TV, SoLuong |-> <<"5">>],
      [MaSanPham |-> S_B2, TenSanPham |-> S_loa, SoLuong |-> <<"3">>],
      [IMEI_1 |-> <<"'", "A", "1">>, TenSanPham |-> S_loa, SoLuong |-> <<"x">>],
      [MaSanPham |-> <<"'", "a", "1", " ">>, SoLuong |-> <<"2">>] }

RECURSIVE SeqsUpTo(_, _)
SeqsUpTo(S, n) ==
    IF n = 0 THEN {<<>>}
    ELSE LET shorter == SeqsUpTo(S, n - 1) IN
         shorter \cup {Append(s, x) : s \in shorter, x \in S}

CountFiles == SeqsUpTo(CountRows, MaxRows)

\* LoadExcelCheckItems, tabulated over the sheets
ExcelCheckLoad == [rows \in CountFiles |-> LoadExcelCheckItems(rows)]

FileNames == {"f1"}

ScanInputs ==
    { <<" ">>, S_A1, S_B2, <<"'", "a", "1">>, <<"'", "T", "v", " ">>, S_loa }

\* the text the load stores in place of a missing product code, as a scanner
\* or the keyboard may send it
PlaceholderInputs == { <<"n", "/", "a">>, <<"'", "N", "/", "A", " ">> }

\* the field is <input type="number">: its value is "" or a decimal number text
EditValues ==
    { <<>>, <<"0">>, <<"2">>, <<"-", "1">>, <<"x">>, <<"-", "0", ".", "5">> }

\* the variant of the load that carries the counts of the session before it
\* over to the rows of the new sheet
HandleFileImportForExcelCheckKeeping(name, rows) ==
    LET loaded == ExcelCheckLoad[rows] IN
    /\ currentPage = "kiem-hang-chuyen-kho"
    /\ excelCheckFileName' = name
    /\ excelCheckItems' =
           [i \in 1..Len(loaded) |->
               IF i <= Len(excelCheckItems)
               THEN [loaded[i] EXCEPT !.actualQuantity = excelCheckItems[i].actualQuantity]
               ELSE loaded[i]]
    /\ scanStatus' = IdleStatus
    /\ Rendered(excelCheckItems')
    /\ scanRun' = NoRun
    /\ UNCHANGED <<scanQuery, lastScannedIndex, highlightTimers>>
    /\ UNCHANGED <<invVars, importVars, currentPage, authVars, unrendered>>

\* handleFileImportForExcelCheck and the reader.onload it registers, try block:
\* the read completes before the operator's next event (spec section 5)
HandleFileImportForExcelCheck(name, rows) ==
    /\ currentPage = "kiem-hang-chuyen-kho"
    /\ excelCheckFileName' = name
    /\ excelCheckItems' = ExcelCheckLoad[rows]
    /\ scanStatus' = IdleStatus
    /\ Rendered(excelCheckItems')
    /\ scanRun' = NoRun
    /\ UNCHANGED <<scanQuery, lastScannedIndex, highlightTimers>>
    /\ UNCHANGED <<invVars, importVars, currentPage, authVars, unrendered>>

\* the same with the catch block: XLSX.read throws, only the name was set
HandleFileImportForExcelCheckError(name) ==
    /\ currentPage = "kiem-hang-chuyen-kho"
    /\ excelCheckFileName' = name
    /\ UNCHANGED <<excelCheckItems, scanQuery, scanStatus, lastScannedIndex,
                   highlightTimers, excelCheckStats, mismatchedItems, scanRun>>
    /\ UNCHANGED <<invVars, importVars, currentPage, authVars, unrendered>>

\* onChange of the scan input (rendered while the list is not empty)
ScanInputChange(q) ==
    /\ currentPage = "kiem-hang-chuyen-kho"
    /\ Len(excelCheckItems) > 0
    /\ scanQuery' = q
    /\ scanStatus' = IF scanStatus.type # "idle" THEN IdleStatus ELSE scanStatus
    /\ UNCHANGED <<excelCheckItems, excelCheckFileName, lastScannedIndex,
                   highlightTimers, excelCheckStats, mismatchedItems, scanRun>>
    /\ UNCHANGED <<invVars, importVars, currentPage, authVars, unrendered>>

\* history: the successful scans since the load, while they all carry one key
\* (n), and whatever their keys and the misses between them, while no
\* quantity was entered by hand (scans)
ScanRunAfter(run, sq, found) ==
    LET scans == IF found /\ ~run.edited THEN run.scans + 1 ELSE run.scans IN
    IF found /\ run.pure /\ (run.n = 0 \/ run.key = sq)
    THEN [key |-> sq, n |-> run.n + 1, pure |-> TRUE, scans |-> scans,
          edited |-> run.edited]
    ELSE [key |-> <<>>, n |-> 0, pure |-> FALSE, scans |-> scans,
          edited |-> run.edited]

HandleScanSubmit ==
    LET query == Trim(scanQuery)
        sq == sanitizedQuery(query)
        foundIndex == ScanFoundIndex(excelCheckItems, sq)
    IN
    /\ currentPage = "kiem-hang-chuyen-kho"
    /\ Len(excelCheckItems) > 0
    /\ IF query = <<>> THEN UNCHANGED countVars
       ELSE
        /\ scanRun' = ScanRunAfter(scanRun, sq, foundIndex # 0)
        /\ scanQuery' = <<>>
        /\ IF foundIndex # 0
           THEN /\ highlightTimers < MaxTimers
                /\ Incremented(excelCheckItems[foundIndex].actualQuantity).v <= MaxQty
                /\ excelCheckItems' =
                       [excelCheckItems EXCEPT ![foundIndex].actualQuantity = Incremented(@)]
                /\ Rendered(excelCheckItems')
                /\ scanStatus' = UpdatedStatus(excelCheckItems[foundIndex].productName)
                /\ lastScannedIndex' = foundIndex
                /\ highlightTimers' = highlightTimers + 1
                /\ UNCHANGED excelCheckFileName
           ELSE /\ scanStatus' = NotFoundStatus(query)
                /\ UNCHANGED <<excelCheckItems, excelCheckFileName, lastScannedIndex,
                               highlightTimers, excelCheckStats, mismatchedItems>>
    /\ UNCHANGED <<invVars, importVars, currentPage, authVars, unrendered>>

\* handleScanSubmit run before the updates of earlier submits are rendered: the
\* handler reads the values bound at the last render (scanQuery, and the
\* array whose record objects it shares with every later array), increments
\* the record object in place, registers the timer and enqueues its updates
HandleScanSubmitUnrendered ==
    LET query == Trim(scanQuery)
        sq == sanitizedQuery(query)
        foundIndex == ScanFoundIndex(excelCheckItems, sq)
    IN
    /\ currentPage = "kiem-hang-chuyen-kho"
    /\ Len(excelCheckItems) > 0
    /\ query # <<>>
    /\ Len(unrendered) < MaxUnrendered
    /\ scanRun' = ScanRunAfter(scanRun, sq, foundIndex # 0)
    /\ IF foundIndex # 0
       THEN /\ highlightTimers < MaxTimers
            /\ Incremented(excelCheckItems[foundIndex].actualQuantity).v <= MaxQty
            /\ excelCheckItems' =
                   [excelCheckItems EXCEPT ![foundIndex].actualQuantity = Incremented(@)]
            /\ highlightTimers' = highlightTimers + 1
            /\ unrendered' = Append(unrendered,
                   [scanStatus |-> UpdatedStatus(excelCheckItems[foundIndex].productName),
                    lastScannedIndex |-> foundIndex])
       ELSE /\ unrendered' = Append(unrendered,
                   [scanStatus |-> NotFoundStatus(query),
                    lastScannedIndex |->
                        IF unrendered = <<>> THEN lastScannedIndex
                        ELSE unrendered[Len(unrendered)].lastScannedIndex])
            /\ UNCHANGED <<excelCheckItems, highlightTimers>>
    /\ UNCHANGED <<excelCheckFileName, scanQuery, scanStatus, lastScannedIndex,
                   excelCheckStats, mismatchedItems>>
    /\ UNCHANGED <<invVars, importVars, currentPage, authVars>>

\* the render that applies the enqueued updates, the last one of each slice
RenderScans ==
    /\ unrendered # <<>>
    /\ scanStatus' = unrendered[Len(unrendered)].scanStatus
    /\ lastScannedIndex' = unrendered[Len(unrendered)].lastScannedIndex
    /\ scanQuery' = <<>>
    /\ Rendered(excelCheckItems)
    /\ unrendered' = <<>>
    /\ UNCHANGED <<excelCheckItems, excelCheckFileName, highlightTimers, scanRun>>
    /\ UNCHANGED <<invVars, importVars, currentPage, authVars>>

\* setTimeout(() => setLastScannedIndex(null), 1000)
HighlightTimeout ==
    /\ currentPage = "kiem-hang-chuyen-kho"
    /\ highlightTimers > 0
    /\ highlightTimers' = highlightTimers - 1
    /\ lastScannedIndex' = 0
    /\ UNCHANGED <<excelCheckItems, excelCheckFileName, scanQuery, scanStatus,
                   excelCheckStats, mismatchedItems, scanRun>>
    /\ UNCHANGED <<invVars, importVars, currentPage, authVars, unrendered>>

HandleExcelCheckReset ==
    /\ currentPage = "kiem-hang-chuyen-kho"
    /\ Len(excelCheckItems) > 0
    /\ excelCheckItems' = <<>>
    /\ excelCheckFileName' = ""
    /\ scanQuery' = <<>>
    /\ scanStatus' = IdleStatus
    /\ Rendered(excelCheckItems')
    /\ scanRun' = NoRun
    /\ UNCHANGED <<lastScannedIndex, highlightTimers>>
    /\ UNCHANGED <<invVars, importVars, currentPage, authVars, unrendered>>

EditedQuantity(value) ==
    LET numberValue == ParseInt(value) IN
    IF numberValue = NaN \/ numberValue.v < 0 THEN Null ELSE numberValue

\* the variant of the edit that writes the typed quantity into the expected
\* quantity of the sheet as well
HandleActualQuantityChangeInSheet(index, value) ==
    /\ currentPage = "kiem-hang-chuyen-kho"
    /\ index \in 1..Len(excelCheckItems)
    /\ excelCheckItems' =
           [excelCheckItems EXCEPT ![index].actualQuantity = EditedQuantity(value),
                                   ![index].fileQuantity = ParseInt(value)]
    /\ Rendered(excelCheckItems')
    /\ scanRun' = [key |-> <<>>, n |-> 0, pure |-> FALSE, scans |-> 0, edited |-> TRUE]
    /\ UNCHANGED <<excelCheckFileName, scanQuery, scanStatus, lastScannedIndex,
                   highlightTimers>>
    /\ UNCHANGED <<invVars, importVars, currentPage, authVars, unrendered>>

HandleActualQuantityChange(index, value) ==
    /\ currentPage = "kiem-hang-chuyen-kho"
    /\ index \in 1..Len(excelCheckItems)
    /\ excelCheckItems' =
           [excelCheckItems EXCEPT ![index].actualQuantity = EditedQuantity(value)]
    /\ Rendered(excelCheckItems')
    /\ scanRun' = [key |-> <<>>, n |-> 0, pure |-> FALSE, scans |-> 0, edited |-> TRUE]
    /\ UNCHANGED <<excelCheckFileName, scanQuery, scanStatus, lastScannedIndex,
                   highlightTimers>>
    /\ UNCHANGED <<invVars, importVars, currentPage, authVars, unrendered>>

----------------------------------------------------------------------------
(* Checklist page ("kiem-ke") and search page ("kiem-tra-ton-kho") *)

\* parseFormattedNumber: digits only, then parseInt, NaN becomes 0
parseFormattedNumber(value) ==
    LET rawValue == SelectSeq(value, IsDigit) IN
    IF rawValue = <<>> THEN Num(0) ELSE Num(DigitsValue(rawValue))

Truthy(x) == x # Undefined /\ x # <<>>

LoadInventoryRow(row) ==
    LET imei == findValue(row, "IMEI_1")
        productCode == findValue(row, "MaSanPham")
        price == IF Truthy(findValue(row, "GiaBan")) THEN findValue(row, "GiaBan")
                 ELSE findValue(row, "Gia")
    IN  [ qrCode |-> StripQuote(Trim(OrElse(imei, OrElse(productCode, <<>>)))),
          productCodeForSearch |-> StripQuote(Trim(OrElse(productCode, <<>>))),
          productName |-> OrElse(findValue(row, "TenSanPham"), NA),
          quantity |-> Number(RemoveCommas(OrElse(findValue(row, "SoLuong"), <<"0">>))),
          price |-> parseFormattedNumber(OrElse(price, <<"0">>)),
          checked |-> FALSE,
          hasImei |-> Truthy(imei),
          status |-> OrElse(findValue(row, "TrangThai"), NA),
          category |-> finalCategory(row) ]

LoadInventoryItems(rows) == [i \in 1..Len(rows) |-> LoadInventoryRow(rows[i])]

\* [...new Set(values.filter(Boolean).filter(v => v !== 'N/A'))]: first occurrences
RECURSIVE Unique(_)
Unique(values) ==
    IF values = <<>> THEN <<>>
    ELSE LET init == Unique(SubSeq(values, 1, Len(values) - 1))
             last == values[Len(values)]
         IN  IF last = <<>> \/ last = NA \/ \E i \in 1..Len(init) : init[i] = last
             THEN init ELSE Append(init, last)

\* the three .filter() passes, on a record that carries originalIndex
\* the variant of PassesFilters in which one passing filter is enough
PassesFiltersAny(item, imeiF, statusF, categoryF) ==
    \/ imeiF = "with_imei" /\ item.hasImei
    \/ imeiF = "without_imei" /\ ~item.hasImei
    \/ item.status = statusF
    \/ item.category = categoryF
    \/ (imeiF = "all" /\ statusF = <<"all">> /\ categoryF = <<"all">>)

PassesFilters(item, imeiF, statusF, categoryF) ==
    /\ CASE imeiF = "with_imei" -> item.hasImei
         [] imeiF = "without_imei" -> ~item.hasImei
         [] OTHER -> TRUE
    /\ (statusF = <<"all">> \/ item.status = statusF)
    /\ (categoryF = <<"all">> \/ item.category = categoryF)

\* the original indices of a filtered list, in order
RECURSIVE FilterIndices(_, _, _, _, _)
FilterIndices(items, n, imeiF, statusF, categoryF) ==
    IF n = 0 THEN <<>>
    ELSE LET before == FilterIndices(items, n - 1, imeiF, statusF, categoryF) IN
         IF PassesFilters(items[n], imeiF, statusF, categoryF)
         THEN Append(before, n) ELSE before

\* useMemo filteredInventoryItems, as the list of originalIndex values
filteredInventoryItems ==
    FilterIndices(inventoryItems, Len(inventoryItems), imeiFilter, statusFilter,
                  categoryFilter)

\* the branch rendered under the filter bar of the checklist page: the table,
\* the line "no product matches the filter", or the guide of the empty page
ChecklistPanel ==
    IF Len(filteredInventoryItems) > 0 THEN "table"
    ELSE IF fileName # "" THEN "noProductMatchesFilter"
    ELSE "guide"

\* variant of futureFilteredItems: the filters are not applied
futureFilteredItemsUnfiltered(newItems) == [i \in 1..Len(newItems) |-> i]

\* futureFilteredItems of handleCheckItem, over the toggled list
futureFilteredItems(newItems) ==
    FilterIndices(newItems, Len(newItems), imeiFilter, statusFilter, categoryFilter)

\* position of originalIndex in a list of indices, 0 when absent
PositionOf(indices, originalIndex) ==
    FirstIndex({p \in 1..Len(indices) : indices[p] = originalIndex})

\* the variant of nextUncheckedFilteredIndex without the second loop: the
\* search stops at the end of the filtered list
nextUncheckedFilteredIndexForward(newItems, filtered, current) ==
    FirstIndex({p \in (current + 1)..Len(filtered) : ~newItems[filtered[p]].checked})

\* the two for loops of handleCheckItem: forward from the current position,
\* then from the start up to it; 0 for -1
nextUncheckedFilteredIndex(newItems, filtered, current) ==
    LET forward == FirstIndex({p \in (current + 1)..Len(filtered) :
                                   ~newItems[filtered[p]].checked})
    IN  IF forward # 0 THEN forward
        ELSE FirstIndex({p \in 1..(current - 1) : ~newItems[filtered[p]].checked})

\* variant of ToggledItems: the click marks the record verified
ToggledItemsSet(items, originalIndex) ==
    [i \in 1..Len(items) |->
        IF i = originalIndex THEN [items[i] EXCEPT !.checked = TRUE] ELSE items[i]]

\* variant of ToggledItems: the click toggles the clicked record and every
\* record above it
ToggledItemsUpTo(items, originalIndex) ==
    [i \in 1..Len(items) |->
        IF i <= originalIndex THEN [items[i] EXCEPT !.checked = ~@] ELSE items[i]]

\* items.map((item, i) => i === originalIndex ? {...item, checked: !item.checked} : item)
ToggledItems(items, originalIndex) ==
    [i \in 1..Len(items) |->
        IF i = originalIndex THEN [items[i] EXCEPT !.checked = ~@] ELSE items[i]]

\* history: the record toggled by the previous event, the list before the first
\* toggle of the pair, and whether that event was the second toggle in a row
NoToggle == [index |-> 0, before |-> <<>>, twice |-> FALSE]

ToggleAfter(last, items, originalIndex) ==
    IF last.index = originalIndex /\ ~last.twice
    THEN [last EXCEPT !.twice = TRUE]
    ELSE [index |-> originalIndex, before |-> items, twice |-> FALSE]

(* Inputs of the checklist and search pages *)

InvRows ==
    { [MaSanPham |-> S_A1, TenSanPham |-> S_TV, SoLuong |-> <<"5">>, TrangThai |-> <<"s">>],
      [MaSanPham |-> S_B2, IMEI_1 |-> S_A1, TenSanPham |-> S_loa, SoLuong |-> <<"3">>],
      [MaSanPham |-> <<"'", "A", "1">>, TenSanPham |-> <<"B", "2", " ", "T", "V">>,
       SoLuong |-> <<"1", ",", "0">>, TrangThai |-> <<"s">>] }

InvFiles == SeqsUpTo(InvRows, MaxInvRows)

\* the files of the sessions in which reads overlap: two names, sheets of at
\* most one row
ImportNames == {"f1", "f2"}
ImportFiles == SeqsUpTo(InvRows, 1)

\* LoadInventoryItems, tabulated over the sheets
InventoryLoad == [rows \in InvFiles |-> LoadInventoryItems(rows)]

SearchInputs ==
    { <<" ">>, S_A1, <<" ", "b", "2">>, <<"t", "v">>, <<"X", "y", "z", " ">>,
      <<"'", "a", "1">> }

ImeiFilterValues == {"all", "with_imei", "without_imei"}

SeqRange(seq) == {seq[i] : i \in 1..Len(seq)}

\* handleFileImport and the reader.onload it registers, try block
HandleFileImport(name, rows) ==
    LET loadedItems == InventoryLoad[rows] IN
    /\ currentPage \in {"kiem-ke", "kiem-tra-ton-kho"}
    /\ fileName' = name
    /\ inventoryItems' = loadedItems
    /\ availableStatuses' = Unique([i \in 1..Len(loadedItems) |-> loadedItems[i].status])
    /\ availableCategories' = Unique([i \in 1..Len(loadedItems) |-> loadedItems[i].category])
    /\ imeiFilter' = "all"
    /\ statusFilter' = <<"all">>
    /\ categoryFilter' = <<"all">>
    /\ searchHistory' = <<>>
    /\ searchQuery' = <<>>
    /\ lastToggle' = NoToggle
    /\ builtFrom' = name
    /\ UNCHANGED <<scrollTarget, pendingReads>>
    /\ UNCHANGED <<countVars, currentPage, authVars>>

\* handleFileImport up to reader.readAsArrayBuffer(file): the name is shown
\* and the read is started; ok tells whether XLSX.read will accept the file
StartFileImport(name, rows, ok) ==
    /\ currentPage \in {"kiem-ke", "kiem-tra-ton-kho"}
    /\ Cardinality(pendingReads) < MaxPending
    /\ [name |-> name, rows |-> rows, ok |-> ok] \notin pendingReads
    /\ fileName' = name
    /\ pendingReads' = pendingReads \cup {[name |-> name, rows |-> rows, ok |-> ok]}
    /\ lastToggle' = NoToggle
    /\ UNCHANGED <<inventoryItems, imeiFilter, statusFilter, categoryFilter,
                   availableStatuses, availableCategories, searchQuery, searchHistory,
                   scrollTarget, builtFrom>>
    /\ UNCHANGED <<countVars, currentPage, authVars>>

\* reader.onload of a read in flight: the try block, or the catch block when
\* XLSX.read throws; reads complete in any order
ReaderOnload(read) ==
    /\ read \in pendingReads
    /\ pendingReads' = pendingReads \ {read}
    /\ IF read.ok
       THEN LET loadedItems == InventoryLoad[read.rows] IN
            /\ inventoryItems' = loadedItems
            /\ availableStatuses' =
                   Unique([i \in 1..Len(loadedItems) |-> loadedItems[i].status])
            /\ availableCategories' =
                   Unique([i \in 1..Len(loadedItems) |-> loadedItems[i].category])
            /\ imeiFilter' = "all"
            /\ statusFilter' = <<"all">>
            /\ categoryFilter' = <<"all">>
            /\ searchHistory' = <<>>
            /\ searchQuery' = <<>>
            /\ lastToggle' = NoToggle
            /\ builtFrom' = read.name
            /\ UNCHANGED <<fileName, scrollTarget>>
       ELSE UNCHANGED <<inventoryItems, fileName, imeiFilter, statusFilter,
                        categoryFilter, availableStatuses, availableCategories,
                        searchQuery, searchHistory, scrollTarget, lastToggle, builtFrom>>
    /\ UNCHANGED <<countVars, currentPage, authVars>>

\* the same with the catch block: XLSX.read throws, only the name was set
HandleFileImportError(name) ==
    /\ currentPage \in {"kiem-ke", "kiem-tra-ton-kho"}
    /\ fileName' = name
    /\ lastToggle' = NoToggle
    /\ UNCHANGED <<inventoryItems, imeiFilter, statusFilter, categoryFilter,
                   availableStatuses, availableCategories, searchQuery, searchHistory,
                   scrollTarget>>
    /\ UNCHANGED <<countVars, importVars, currentPage, authVars>>

\* the reset button is rendered while the list is not empty
HandleInventoryReset ==
    /\ currentPage = "kiem-ke"
    /\ Len(inventoryItems) > 0
    /\ inventoryItems' = <<>>
    /\ fileName' = ""
    /\ imeiFilter' = "all"
    /\ statusFilter' = <<"all">>
    /\ categoryFilter' = <<"all">>
    /\ availableStatuses' = <<>>
    /\ availableCategories' = <<>>
    /\ searchHistory' = <<>>
    /\ searchQuery' = <<>>
    /\ lastToggle' = NoToggle
    /\ builtFrom' = ""
    /\ UNCHANGED <<scrollTarget, pendingReads>>
    /\ UNCHANGED <<countVars, currentPage, authVars>>

\* onClick of a rendered row, i.e. a row of filteredInventoryItems
HandleCheckItem(originalIndex) ==
    LET newItems == ToggledItems(inventoryItems, originalIndex)
        filtered == futureFilteredItems(newItems)
        current == PositionOf(filtered, originalIndex)
        next == nextUncheckedFilteredIndex(newItems, filtered, current)
    IN
    /\ currentPage = "kiem-ke"
    /\ PositionOf(filteredInventoryItems, originalIndex) # 0
    /\ inventoryItems' = newItems
    /\ scrollTarget' = IF current # 0 /\ next # 0 THEN filtered[next] ELSE 0
    /\ lastToggle' = ToggleAfter(lastToggle, inventoryItems, originalIndex)
    /\ UNCHANGED <<fileName, imeiFilter, statusFilter, categoryFilter,
                   availableStatuses, availableCategories, searchQuery, searchHistory>>
    /\ UNCHANGED <<countVars, importVars, currentPage, authVars>>

\* onChange of the three selects (rendered while the list is not empty)
SetImeiFilter(value) ==
    /\ currentPage = "kiem-ke"
    /\ Len(inventoryItems) > 0
    /\ imeiFilter' = value
    /\ lastToggle' = NoToggle
    /\ UNCHANGED <<inventoryItems, fileName, statusFilter, categoryFilter,
                   availableStatuses, availableCategories, searchQuery, searchHistory,
                   scrollTarget>>
    /\ UNCHANGED <<countVars, importVars, currentPage, authVars>>

SetStatusFilter(value) ==
    /\ currentPage = "kiem-ke"
    /\ Len(inventoryItems) > 0
    /\ statusFilter' = value
    /\ lastToggle' = NoToggle
    /\ UNCHANGED <<inventoryItems, fileName, imeiFilter, categoryFilter,
                   availableStatuses, availableCategories, searchQuery, searchHistory,
                   scrollTarget>>
    /\ UNCHANGED <<countVars, importVars, currentPage, authVars>>

SetCategoryFilter(value) ==
    /\ currentPage = "kiem-ke"
    /\ Len(inventoryItems) > 0
    /\ categoryFilter' = value
    /\ lastToggle' = NoToggle
    /\ UNCHANGED <<inventoryItems, fileName, imeiFilter, statusFilter,
                   availableStatuses, availableCategories, searchQuery, searchHistory,
                   scrollTarget>>
    /\ UNCHANGED <<countVars, importVars, currentPage, authVars>>

\* onChange of the search input (rendered while the list is not empty)
\* .slice(0, 7)
SuggestionLimit == 7

\* the suggestions effect: it runs after every render in which searchQuery,
\* inventoryItems or currentPage changed, so the list is a function of them;
\* the entries are given by their originalIndex
suggestions ==
    IF currentPage = "kiem-tra-ton-kho" /\ Len(Trim(searchQuery)) > 1
    THEN LET lowerCaseQuery == ToLowerCase(searchQuery)
             filteredSuggestions ==
                 SelectSeq([i \in 1..Len(inventoryItems) |-> i],
                           LAMBDA i : Includes(ToLowerCase(inventoryItems[i].productName),
                                               lowerCaseQuery))
         IN  SubSeq(filteredSuggestions, 1,
                    IF Len(filteredSuggestions) < SuggestionLimit
                    THEN Len(filteredSuggestions) ELSE SuggestionLimit)
    ELSE <<>>

\* variant of SearchInputChange: the text is searched and recorded as it is typed
SearchInputChangeCommitting(q) ==
    /\ currentPage = "kiem-tra-ton-kho"
    /\ Len(inventoryItems) > 0
    /\ Len(searchHistory) < MaxHistory
    /\ searchQuery' = q
    /\ searchHistory' = <<[query |-> Trim(q), result |-> Null]>> \o searchHistory
    /\ lastToggle' = NoToggle
    /\ UNCHANGED <<inventoryItems, fileName, imeiFilter, statusFilter, categoryFilter,
                   availableStatuses, availableCategories, scrollTarget>>
    /\ UNCHANGED <<countVars, importVars, currentPage, authVars>>

SearchInputChange(q) ==
    /\ currentPage = "kiem-tra-ton-kho"
    /\ Len(inventoryItems) > 0
    /\ searchQuery' = q
    /\ lastToggle' = NoToggle
    /\ UNCHANGED <<inventoryItems, fileName, imeiFilter, statusFilter, categoryFilter,
                   availableStatuses, availableCategories, searchHistory, scrollTarget>>
    /\ UNCHANGED <<countVars, importVars, currentPage, authVars>>

\* inventoryItems.find(item => qrCode matches || productCodeForSearch matches)
ExactKeyIndex(items, query) ==
    FirstIndex({i \in 1..Len(items) :
        \/ items[i].qrCode # <<>> /\ ToLowerCase(Trim(items[i].qrCode)) = query
        \/ /\ items[i].productCodeForSearch # <<>>
           /\ ToLowerCase(Trim(items[i].productCodeForSearch)) = query})

\* nameMatches[0]
NameMatchIndex(items, query) ==
    FirstIndex({i \in 1..Len(items) : Includes(ToLowerCase(items[i].productName), query)})

\* variant of SearchFoundIndex: the name match is tried first
SearchFoundIndexNameFirst(items, query) ==
    IF NameMatchIndex(items, query) # 0 THEN NameMatchIndex(items, query)
    ELSE ExactKeyIndex(items, query)

\* foundItem of handleSearchSubmit, as an index, 0 for undefined
SearchFoundIndex(items, query) ==
    IF ExactKeyIndex(items, query) # 0 THEN ExactKeyIndex(items, query)
    ELSE NameMatchIndex(items, query)

\* a history entry refers to the item object found: its index and its fields
SearchResult(items, index) ==
    IF index = 0 THEN Null ELSE [index |-> index, item |-> items[index]]

\* variant of HistoryEntry: the entry holds the normalised query
HistoryEntryNormalised(typed, items, index) ==
    [query |-> ToLowerCase(Trim(typed)), result |-> SearchResult(items, index)]

\* { query: searchQuery.trim(), result: foundItem || null }
HistoryEntry(typed, items, index) ==
    [query |-> Trim(typed), result |-> SearchResult(items, index)]

\* handleSuggestionClick, on the k-th entry of the suggestion list shown
HandleSuggestionClick(k) ==
    /\ currentPage = "kiem-tra-ton-kho"
    /\ k \in 1..Len(suggestions)
    /\ Len(searchHistory) < MaxHistory
    /\ searchHistory' =
           <<[query |-> inventoryItems[suggestions[k]].productName,
              result |-> [index |-> suggestions[k], item |-> inventoryItems[suggestions[k]]]]>>
           \o searchHistory
    /\ searchQuery' = <<>>
    /\ lastToggle' = NoToggle
    /\ UNCHANGED <<inventoryItems, fileName, imeiFilter, statusFilter, categoryFilter,
                   availableStatuses, availableCategories, scrollTarget>>
    /\ UNCHANGED <<countVars, importVars, currentPage, authVars>>

HandleSearchSubmit ==
    LET query == ToLowerCase(Trim(searchQuery))
        foundIndex == SearchFoundIndex(inventoryItems, query)
    IN
    /\ currentPage = "kiem-tra-ton-kho"
    /\ Len(inventoryItems) > 0
    /\ IF Trim(searchQuery) = <<>> THEN UNCHANGED invVars
       ELSE /\ Len(searchHistory) < MaxHistory
            /\ searchHistory' =
                   <<HistoryEntry(searchQuery, inventoryItems, foundIndex)>>
                   \o searchHistory
            /\ searchQuery' = <<>>
            /\ lastToggle' = NoToggle
            /\ UNCHANGED <<inventoryItems, fileName, imeiFilter, statusFilter,
                           categoryFilter, availableStatuses, availableCategories,
                           scrollTarget>>
    /\ UNCHANGED <<countVars, importVars, currentPage, authVars>>

InvInit ==
    /\ inventoryItems = <<>>
    /\ fileName = ""
    /\ imeiFilter = "all"
    /\ statusFilter = <<"all">>
    /\ categoryFilter = <<"all">>
    /\ availableStatuses = <<>>
    /\ availableCategories = <<>>
    /\ searchQuery = <<>>
    /\ searchHistory = <<>>
    /\ scrollTarget = 0
    /\ lastToggle = NoToggle
    /\ pendingReads = {}
    /\ builtFrom = ""

CountInit ==
    /\ excelCheckItems = <<>>
    /\ excelCheckFileName = ""
    /\ scanQuery = <<>>
    /\ scanStatus = IdleStatus
    /\ lastScannedIndex = 0
    /\ highlightTimers = 0
    /\ excelCheckStats = InitialStats
    /\ mismatchedItems = <<>>
    /\ scanRun = NoRun
    /\ unrendered = <<>>


\* the accounts of the users list (part_000:473-491): the two default
\* accounts and a VIP account saved by an earlier session
NoUser == [username |-> "", role |-> "", tier |-> ""]
Usernames == {"admin", "user", "vip"}
Account(username) ==
    CASE username = "admin" -> [username |-> "admin", role |-> "admin", tier |-> ""]
      [] username = "user" -> [username |-> "user", role |-> "user", tier |-> "free"]
      [] username = "vip" -> [username |-> "vip", role |-> "user", tier |-> "vip"]

\* if (user.tier === 'vip' && user.vipExpiry && user.vipExpiry < now) user.tier = 'free'
VipChecked(user, expired) ==
    IF user.tier = "vip" /\ expired THEN [user EXCEPT !.tier = "free"] ELSE user

paidFeatures == {"kiem-hang-chuyen-kho", "kiem-tra-ton-kho", "thay-posm", "ma-qr"}

\* the features of the home page and of the navigation bar
FeaturePages ==
    {"kiem-quy", "kiem-ke", "kiem-tra-ton-kho", "kiem-hang-chuyen-kho", "thay-posm",
     "ma-qr", "tinh-thuong"}

\* variant of isFeatureLocked: only the count page is reserved
isFeatureLockedCountOnly(user, page) ==
    IF user.role = "admin" \/ user.tier = "vip" THEN FALSE
    ELSE page = "kiem-hang-chuyen-kho"

\* isFeatureLocked, over the user it reads (currentUser, null as NoUser)
isFeatureLocked(user, page) ==
    IF user.role = "admin" \/ user.tier = "vip" THEN FALSE
    ELSE page \in paidFeatures

\* the tier access effect, run after the render of a change of currentPage,
\* isAuthenticated or currentUser: the page it leaves
TierAccess(authenticated, user, page) ==
    IF authenticated /\ isFeatureLocked(user, page) THEN "trang-chu" ELSE page

\* handleLogin, the branch of matching credentials, and the effect after it
HandleLogin(username) ==
    LET user == VipChecked(Account(username), vipExpired) IN
    /\ ~isAuthenticated
    /\ isAuthenticated' = TRUE
    /\ currentUser' = user
    /\ savedUser' = user
    /\ currentPage' = TierAccess(TRUE, user, currentPage)
    /\ UNCHANGED <<vipExpired, lastRefused>>
    /\ UNCHANGED <<countVars, invVars, importVars>>

\* handleLogout: the button of the user menu and the session timeout
HandleLogout ==
    /\ isAuthenticated
    /\ isAuthenticated' = FALSE
    /\ currentUser' = NoUser
    /\ savedUser' = NoUser
    /\ currentPage' = TierAccess(FALSE, NoUser, "trang-chu")
    /\ UNCHANGED <<vipExpired, lastRefused>>
    /\ UNCHANGED <<countVars, invVars, importVars>>

\* the pages are as constructed and no timer is pending
PagesIdle == CountInit /\ InvInit

\* the page is loaded again while the pages hold no data: the state is
\* constructed anew and the mount effect restores the saved session, which
\* is still active or not
ReloadPage(active) ==
    LET user == VipChecked(savedUser, vipExpired)
        restored == savedUser # NoUser /\ (user.role = "admin" \/ active)
    IN
    /\ PagesIdle
    /\ isAuthenticated' = restored
    /\ currentUser' = IF restored THEN user ELSE NoUser
    /\ savedUser' = IF restored THEN savedUser ELSE NoUser
    /\ currentPage' = TierAccess(restored, currentUser', "trang-chu")
    /\ lastRefused' = ""
    /\ UNCHANGED vipExpired
    /\ UNCHANGED <<countVars, invVars, importVars>>

\* the clock passes the vipExpiry of the VIP account
VipExpires ==
    /\ ~vipExpired
    /\ vipExpired' = TRUE
    /\ UNCHANGED <<isAuthenticated, currentUser, savedUser, lastRefused, currentPage>>
    /\ UNCHANGED <<countVars, invVars, importVars>>

\* handleFeatureClick and the effect after it. The navigation is rendered for
\* an authenticated user only. A session works on one page at a time (spec
\* section 4.4: modes are not mixed within one session): the operator changes
\* page only while the pages hold no loaded data.
HandleFeatureClick(page) ==
    /\ isAuthenticated
    /\ PagesIdle
    /\ IF isFeatureLocked(currentUser, page)
       THEN /\ lastRefused' = page
            /\ UNCHANGED currentPage
       ELSE /\ currentPage' = TierAccess(isAuthenticated, currentUser, page)
            /\ UNCHANGED lastRefused
    /\ UNCHANGED <<isAuthenticated, currentUser, savedUser, vipExpired>>
    /\ UNCHANGED <<countVars, invVars, importVars>>

\* onClick of the home and information buttons: setCurrentPage(page)
SetCurrentPage(page) ==
    /\ isAuthenticated
    /\ PagesIdle
    /\ currentPage' = TierAccess(isAuthenticated, currentUser, page)
    /\ UNCHANGED authVars
    /\ UNCHANGED <<countVars, invVars, importVars>>

\* the operator of the pages is the administrator, for whom no feature is
\* locked
OperatorLogin == HandleLogin("admin")

AuthInit ==
    /\ isAuthenticated = FALSE
    /\ currentUser = NoUser
    /\ savedUser = NoUser
    /\ vipExpired = FALSE
    /\ lastRefused = ""

Init == CountInit /\ InvInit /\ currentPage = "trang-chu" /\ AuthInit

CountNext ==
    \/ \E name \in FileNames, rows \in CountFiles : HandleFileImportForExcelCheck(name, rows)
    \/ \E name \in FileNames : HandleFileImportForExcelCheckError(name)
    \/ \E q \in ScanInputs : ScanInputChange(q)
    \/ HandleScanSubmit
    \/ HighlightTimeout
    \/ HandleExcelCheckReset
    \/ \E index \in 1..MaxRows, value \in EditValues : HandleActualQuantityChange(index, value)

ImportNext ==
    \/ \E name \in FileNames, rows \in InvFiles : HandleFileImport(name, rows)
    \/ \E name \in FileNames : HandleFileImportError(name)

ChecklistNext ==
    \/ HandleInventoryReset
    \/ \E originalIndex \in 1..MaxInvRows : HandleCheckItem(originalIndex)
    \/ \E value \in ImeiFilterValues : SetImeiFilter(value)
    \/ \E value \in {<<"all">>} \cup SeqRange(availableStatuses) : SetStatusFilter(value)
    \/ \E value \in {<<"all">>} \cup SeqRange(availableCategories) : SetCategoryFilter(value)

SearchNext ==
    \/ \E q \in SearchInputs : SearchInputChange(q)
    \/ HandleSearchSubmit
    \/ \E k \in 1..SuggestionLimit : HandleSuggestionClick(k)

Pages == {"trang-chu", "kiem-ke", "kiem-tra-ton-kho", "kiem-hang-chuyen-kho"}

Next ==
    \/ OperatorLogin
    \/ \E page \in Pages : HandleFeatureClick(page)
    \/ CountNext
    \/ ImportNext
    \/ ChecklistNext
    \/ SearchNext

Spec == Init /\ [][Next]_vars

\* sessions that stay on one page
SpecCount ==
    Init /\ [][OperatorLogin \/ HandleFeatureClick("kiem-hang-chuyen-kho") \/ CountNext]_vars
\* the count page with the placeholder text among the texts typed into the
\* scan input
SpecPlaceholder ==
    Init /\ [][\/ OperatorLogin
               \/ HandleFeatureClick("kiem-hang-chuyen-kho")
               \/ CountNext
               \/ \E q \in PlaceholderInputs : ScanInputChange(q)]_vars
SpecChecklist ==
    Init /\ [][\/ OperatorLogin
               \/ HandleFeatureClick("kiem-ke") \/ ImportNext \/ ChecklistNext]_vars
SpecSearch ==
    Init /\ [][\/ OperatorLogin
               \/ HandleFeatureClick("kiem-tra-ton-kho") \/ ImportNext \/ SearchNext]_vars

\* a session on the checklist page in which a file can be chosen while the
\* read of the file chosen before it is still in flight
OverlapNext ==
    \/ OperatorLogin
    \/ HandleFeatureClick("kiem-ke")
    \/ \E name \in ImportNames, rows \in ImportFiles : StartFileImport(name, rows, TRUE)
    \/ \E name \in ImportNames : StartFileImport(name, <<>>, FALSE)
    \/ \E read \in pendingReads : ReaderOnload(read)
    \/ \E originalIndex \in 1..MaxInvRows : HandleCheckItem(originalIndex)
    \/ HandleInventoryReset

SpecOverlap == Init /\ [][OverlapNext]_vars

\* a session on the count page in which scan submits may be handled before the
\* updates of the submits before them are rendered; every other handler runs
\* on a rendered state
RapidNext ==
    \/ OperatorLogin
    \/ HandleFeatureClick("kiem-hang-chuyen-kho")
    \/ unrendered = <<>> /\ CountNext
    \/ HandleScanSubmitUnrendered
    \/ RenderScans
SpecRapid == Init /\ [][RapidNext]_vars

\* a session of any account over the home page, the navigation bar and the
\* user menu, the pages holding no data
AccessNext ==
    \/ \E username \in Usernames : HandleLogin(username)
    \/ HandleLogout
    \/ \E active \in BOOLEAN : ReloadPage(active)
    \/ VipExpires
    \/ \E page \in FeaturePages : HandleFeatureClick(page)
    \/ \E page \in {"trang-chu", "thong-tin"} : SetCurrentPage(page)

SpecAccess == Init /\ [][AccessNext]_vars

----------------------------------------------------------------------------
(* Properties *)

\* the lowest element of a non-empty set of indices
Lowest(S) == CHOOSE i \in S : \A j \in S : i <= j

\* rows of the count list that carry the sanitised key as product code / as IMEI
ProductCodeRows(items, sq) ==
    {i \in 1..Len(items) : cleanString(items[i].productCode) = sq}
ImeiRows(items, sq) ==
    {i \in 1..Len(items) : cleanString(items[i].imei) = sq}

\* rows of the inventory list that carry the normalised query as IMEI
\* (alternate key) / as product code (primary key)
AltKeyRows(items, query) ==
    {i \in 1..Len(items) :
        items[i].hasImei /\ ToLowerCase(Trim(items[i].qrCode)) = query}
PrimaryKeyRows(items, query) ==
    {i \in 1..Len(items) :
        /\ items[i].productCodeForSearch # <<>>
        /\ ToLowerCase(Trim(items[i].productCodeForSearch)) = query}
NameRows(items, query) ==
    {i \in 1..Len(items) : Includes(ToLowerCase(items[i].productName), query)}

\* a search submit that is not the empty-query no-op, and the entry it records
SearchSubmitted == HandleSearchSubmit /\ Trim(searchQuery) # <<>>
NormalisedQuery == ToLowerCase(Trim(searchQuery))
\* a scan submit that is not the empty-query no-op
ScanSubmitted == HandleScanSubmit /\ Trim(scanQuery) # <<>>
SanitisedScan == sanitizedQuery(Trim(scanQuery))

\* C1: in count mode, after a load, N >= 1 scans of one existing product code
\* (no manual edit, no other load in between) leave the record that carries
\* the product code with actualQuantity = N.
C1_ScanNTimes ==
    (scanRun.pure /\ scanRun.n >= 1 /\ ProductCodeRows(excelCheckItems, scanRun.key) # {})
    => excelCheckItems[Lowest(ProductCodeRows(excelCheckItems, scanRun.key))].actualQuantity
           = Num(scanRun.n)

C1_Witness ==
    /\ scanRun.pure /\ scanRun.n = MaxQty
    /\ Cardinality(ProductCodeRows(excelCheckItems, scanRun.key)) = 2
    /\ excelCheckItems[1].actualQuantity = Num(MaxQty)

C3_AltKeyBeforePrimaryKey ==
    [][(/\ SearchSubmitted
        /\ AltKeyRows(inventoryItems, NormalisedQuery) # {}
        /\ PrimaryKeyRows(inventoryItems, NormalisedQuery) # {}
        /\ Lowest(PrimaryKeyRows(inventoryItems, NormalisedQuery))
               < Lowest(AltKeyRows(inventoryItems, NormalisedQuery)))
       => /\ searchHistory'[1].result # Null
          /\ searchHistory'[1].result.index
                 = Lowest(AltKeyRows(inventoryItems, NormalisedQuery))]_vars

\* C4: the search returns a record matched by name only when no record
\* matches the query by exact IMEI or product code, and then it is the
\* name match of lowest index.
C4_NameMatchLast ==
    [][SearchSubmitted
       => LET keyRows == AltKeyRows(inventoryItems, NormalisedQuery)
                             \cup PrimaryKeyRows(inventoryItems, NormalisedQuery)
              nameRows == NameRows(inventoryItems, NormalisedQuery)
              result == searchHistory'[1].result
          IN  /\ keyRows # {} => (result # Null /\ result.index \in keyRows)
              /\ (keyRows = {} /\ nameRows # {})
                     => (result # Null /\ result.index = Lowest(nameRows))]_vars

\* the entry of the history for the typed query
EntryFor(typed) ==
    {k \in 1..Len(searchHistory) : searchHistory[k].query = typed}

C4_Witness ==
    /\ Len(inventoryItems) = 3
    /\ EntryFor(<<"t", "v">>) # {} /\ EntryFor(<<"b", "2">>) # {}
    \* "tv": no key match, two name matches, the first is returned
    /\ NameRows(inventoryItems, <<"t", "v">>) = {1, 3}
    /\ searchHistory[Lowest(EntryFor(<<"t", "v">>))].result.index = 1
    \* "b2": a name match at row 1, the key match at row 2 is returned
    /\ NameRows(inventoryItems, <<"b", "2">>) = {1}
    /\ searchHistory[Lowest(EntryFor(<<"b", "2">>))].result.index = 2

\* C5: a query that matches no record by key or by name is recorded as a
\* history entry holding the trimmed query as typed and a null result, ahead
\* of the earlier entries; the list and the page are untouched and the search
\* form stays available.
C5_MissIsRecorded ==
    [][(/\ SearchSubmitted
        /\ AltKeyRows(inventoryItems, NormalisedQuery) = {}
        /\ PrimaryKeyRows(inventoryItems, NormalisedQuery) = {}
        /\ NameRows(inventoryItems, NormalisedQuery) = {})
       => /\ searchHistory'
                 = <<[query |-> Trim(searchQuery), result |-> Null]>> \o searchHistory
          /\ inventoryItems' = inventoryItems
          /\ fileName' = fileName
          /\ currentPage' = "kiem-tra-ton-kho"
          /\ Len(inventoryItems') > 0]_vars

C5_Witness ==
    /\ Len(searchHistory) = 2
    /\ searchHistory[1] = [query |-> <<"X", "y", "z">>, result |-> Null]
    /\ searchHistory[2].result # Null

\* C6: two toggles in a row of the same record return the whole list to the
\* state it had before the first of them.
C6_ToggleTwice ==
    lastToggle.twice => inventoryItems = lastToggle.before

C6_Witness ==
    /\ lastToggle.twice
    /\ Len(inventoryItems) = 2
    /\ \E i \in 1..Len(inventoryItems) :
           i # lastToggle.index /\ inventoryItems[i].checked

\* C7: the record a toggle chooses as next-unverified target passes the IMEI,
\* status and category filters in force and is not verified.
C7_TargetInFilter ==
    [][\A originalIndex \in 1..Len(inventoryItems) :
        (HandleCheckItem(originalIndex) /\ scrollTarget' # 0)
        => /\ scrollTarget' \in 1..Len(inventoryItems')
           /\ PassesFilters(inventoryItems'[scrollTarget'], imeiFilter', statusFilter',
                            categoryFilter')
           /\ ~inventoryItems'[scrollTarget'].checked]_vars

C7_Witness ==
    /\ lastToggle.index # 0 /\ scrollTarget # 0
    /\ imeiFilter # "all"
    /\ \E i \in 1..Len(inventoryItems) :
           /\ ~inventoryItems[i].checked
           /\ ~PassesFilters(inventoryItems[i], imeiFilter, statusFilter, categoryFilter)

\* the aggregate of a record list, written over its index set
RECURSIVE SumOf(_, _)
SumOf(items, field) ==
    IF items = <<>> THEN Num(0)
    ELSE JsAdd(SumOf(SubSeq(items, 1, Len(items) - 1), field), items[Len(items)][field])

Observed(items) == {i \in 1..Len(items) : items[i].actualQuantity # Null}
Difference(item) == JsSub(item.actualQuantity, item.fileQuantity)
MatchedRows(items) == {i \in Observed(items) : Difference(items[i]) = Num(0)}
SurplusRows(items) ==
    {i \in Observed(items) : IsNum(Difference(items[i])) /\ Difference(items[i]).v > 0}
DeficitRows(items) ==
    {i \in Observed(items) : IsNum(Difference(items[i])) /\ Difference(items[i]).v < 0}
UndefinedDifferenceRows(items) ==
    {i \in Observed(items) : Difference(items[i]) = NaN}

ObservedItems(items) == SelectSeq(items, LAMBDA item : item.actualQuantity # Null)

\* C8: the aggregate and the mismatched list are a function of the record
\* list alone, and a step that leaves the record list as it is leaves them
\* identical.
C8_AggregatorPure ==
    /\ [](/\ excelCheckStats.totalFileQuantity = SumOf(excelCheckItems, "fileQuantity")
          /\ excelCheckStats.totalActualQuantity
                 = SumOf(ObservedItems(excelCheckItems), "actualQuantity")
          /\ excelCheckStats.matchedCount = Cardinality(MatchedRows(excelCheckItems))
          /\ excelCheckStats.matchedCount + excelCheckStats.mismatchedCount
                 = Cardinality(Observed(excelCheckItems))
          /\ mismatchedItems
                 = SelectSeq(ObservedItems(excelCheckItems),
                             LAMBDA item : Difference(item) # Num(0)))
    /\ [][excelCheckItems' = excelCheckItems
          => (excelCheckStats' = excelCheckStats /\ mismatchedItems' = mismatchedItems)]_vars

C8_Witness ==
    /\ excelCheckFileName # "" /\ Len(excelCheckItems) = 2
    /\ excelCheckStats.matchedCount = 1 /\ excelCheckStats.mismatchedCount = 1
    /\ scanStatus.type = "error"

\* records A1 (expected 5) and B2 (expected 3), each scanned three times
C9_Scenario ==
    /\ Len(excelCheckItems) = 2
    /\ excelCheckItems[1].productCode = S_A1 /\ excelCheckItems[1].fileQuantity = Num(5)
    /\ excelCheckItems[2].productCode = S_B2 /\ excelCheckItems[2].fileQuantity = Num(3)
    /\ excelCheckItems[1].actualQuantity = Num(3)
    /\ excelCheckItems[2].actualQuantity = Num(3)

\* C9 as stated: the aggregate carries separate matched, surplus and deficit
\* counts; in the scenario matched = 1, deficit = 1, totals 8 and 6.
C9_ThreeCounts ==
    C9_Scenario =>
        /\ {"matchedCount", "surplusCount", "deficitCount"} \subseteq DOMAIN excelCheckStats
        /\ excelCheckStats.matchedCount = 1
        /\ excelCheckStats.deficitCount = 1
        /\ excelCheckStats.totalFileQuantity = Num(8)
        /\ excelCheckStats.totalActualQuantity = Num(6)

\* C9 amended: the aggregate carries two counts, matched (difference = 0) and
\* mismatched (every other observed record: surplus, deficit or a difference
\* that is not a number); in the scenario matched = 1, mismatched = 1,
\* totals 8 and 6.
C9_TwoCounts ==
    /\ DOMAIN excelCheckStats = {"totalFileQuantity", "totalActualQuantity",
                                 "matchedCount", "mismatchedCount"}
    /\ excelCheckStats.matchedCount = Cardinality(MatchedRows(excelCheckItems))
    /\ excelCheckStats.mismatchedCount =
           Cardinality(SurplusRows(excelCheckItems) \cup DeficitRows(excelCheckItems)
                       \cup UndefinedDifferenceRows(excelCheckItems))
    /\ C9_Scenario =>
          /\ excelCheckStats.matchedCount = 1
          /\ excelCheckStats.mismatchedCount = 1
          /\ excelCheckStats.totalFileQuantity = Num(8)
          /\ excelCheckStats.totalActualQuantity = Num(6)

C9_Witness == C9_Scenario /\ DeficitRows(excelCheckItems) = {1}

IsNegativeText(value) ==
    /\ value # <<>> /\ Head(value) = "-"
    /\ \E i \in 2..Len(value) : IsDigit(value[i]) /\ value[i] # "0"
IsNonNumericText(value) ==
    ~\E i \in 1..Len(value) : IsDigit(value[i])

\* C11: a manual edit with text n replaces the record's actualQuantity by n
\* whatever it was before, and a negative or non-numeric text sets it to null.
C11_ManualOverride ==
    [][\A index \in 1..Len(excelCheckItems), value \in EditValues :
        HandleActualQuantityChange(index, value)
        => /\ (IsNegativeText(value) \/ IsNonNumericText(value))
                  => excelCheckItems'[index].actualQuantity = Null
           /\ (AllDigits(value) /\ value # <<>>)
                  => excelCheckItems'[index].actualQuantity = Num(DigitsValue(value))]_vars

\* C12: when a load completes, every observable part of the session is the one
\* built from the loaded sheet: the record list, no record observed or
\* verified, an empty query history, filters at 'all', an idle scan status and
\* no last-scanned highlight left from the sheet before.
C12_LoadReplacesSession ==
    [][/\ (\E name \in FileNames, rows \in CountFiles :
               HandleFileImportForExcelCheck(name, rows))
          => /\ \A i \in 1..Len(excelCheckItems') : excelCheckItems'[i].actualQuantity = Null
             /\ mismatchedItems' = <<>>
             /\ scanStatus' = IdleStatus
             /\ lastScannedIndex' = 0
       /\ (\E name \in FileNames, rows \in InvFiles : HandleFileImport(name, rows))
          => /\ \A i \in 1..Len(inventoryItems') : ~inventoryItems'[i].checked
             /\ searchHistory' = <<>>
             /\ imeiFilter' = "all" /\ statusFilter' = <<"all">>
             /\ categoryFilter' = <<"all">>]_vars

\* the sum of actualQuantity over the observed records
TotalActual(items) == SumOf(ObservedItems(items), "actualQuantity")

\* C13: no scan increment is lost: every submit of a code that some record
\* carries, handled on a rendered state or before the updates of the submits
\* before it are rendered, raises the sum of actualQuantity by exactly one, and
\* after k such submits since the load the sum is k.
C13_NoLostIncrement ==
    /\ [](scanRun.pure => TotalActual(excelCheckItems) = Num(scanRun.n))
    /\ [][((HandleScanSubmitUnrendered \/ ScanSubmitted)
           /\ (ProductCodeRows(excelCheckItems, SanitisedScan)
                   \cup ImeiRows(excelCheckItems, SanitisedScan)) # {})
          => TotalActual(excelCheckItems')
                 = JsAdd(TotalActual(excelCheckItems), Num(1))]_vars

C13_Witness ==
    /\ Len(unrendered) = MaxUnrendered
    /\ scanRun.pure /\ scanRun.n = MaxUnrendered
    /\ TotalActual(excelCheckItems) = Num(MaxUnrendered)
    /\ excelCheckStats.totalActualQuantity = Num(0)

NoScanMatch ==
    ProductCodeRows(excelCheckItems, SanitisedScan) \cup ImeiRows(excelCheckItems, SanitisedScan) = {}

\* C14 as stated: a scan that matches no record leaves every actualQuantity
\* as it was, sets an error status whose message contains the raw query, the
\* text of the scan input, and leaves the scan form ready for the next scan.
C14_MissReportsRawQuery ==
    [][(ScanSubmitted /\ NoScanMatch)
       => /\ \A i \in 1..Len(excelCheckItems) :
                excelCheckItems'[i].actualQuantity = excelCheckItems[i].actualQuantity
          /\ scanStatus'.type = "error"
          /\ Includes(ScanStatusMessage(scanStatus'), scanQuery)
          /\ scanQuery' = <<>>
          /\ currentPage' = currentPage /\ Len(excelCheckItems') > 0]_vars

\* C14, amended: a scan that matches no record leaves the record list as it
\* was, sets an error status whose message ends with the query trimmed of its
\* surrounding whitespace, its leading quote and its letter case kept, clears
\* the scan input and leaves the scan form ready for the next scan.
C14_MissReportsTrimmedQuery ==
    [][(ScanSubmitted /\ NoScanMatch)
       => /\ excelCheckItems' = excelCheckItems
          /\ scanStatus'.type = "error"
          /\ ScanStatusMessage(scanStatus') = MessagePrefix("notFound") \o Trim(scanQuery)
          /\ scanQuery' = <<>>
          /\ currentPage' = currentPage /\ Len(excelCheckItems') > 0]_vars

C14_Witness ==
    /\ scanStatus.type = "error"
    /\ scanStatus.arg = <<"'", "T", "v">>
    /\ scanQuery = <<>>
    /\ \E i \in 1..Len(excelCheckItems) : excelCheckItems[i].actualQuantity = Num(1)

\* C15: after any completed load, whatever the session before it held, every
\* record of the new list carries its one verification state at its default:
\* checked = FALSE on the checklist and search pages, actualQuantity = null on
\* the count page, and nothing counted before the load is left in the totals.
C15_LoadDefaultInitialises ==
    [][/\ \A name \in FileNames, rows \in CountFiles :
            HandleFileImportForExcelCheck(name, rows)
            => /\ Len(excelCheckItems') = Len(rows)
               /\ \A i \in 1..Len(excelCheckItems') :
                      excelCheckItems'[i].actualQuantity = Null
               /\ Observed(excelCheckItems') = {}
               /\ excelCheckStats'.totalActualQuantity = Num(0)
       /\ \A name \in FileNames, rows \in InvFiles :
            HandleFileImport(name, rows)
            => /\ Len(inventoryItems') = Len(rows)
               /\ \A i \in 1..Len(inventoryItems') : inventoryItems'[i].checked = FALSE]_vars

\* a count sheet loaded over a session that had a successful scan (its
\* highlight timer is still pending)
C15_Witness ==
    /\ Len(excelCheckItems) = MaxRows
    /\ \A i \in 1..Len(excelCheckItems) : excelCheckItems[i].actualQuantity = Null
    /\ highlightTimers > 0
    /\ scanRun = NoRun

HasDisplayName(row) == "TenSanPham" \in DOMAIN row /\ row.TenSanPham # <<>>
NamedRows(rows) == SelectSeq(rows, HasDisplayName)

\* C16: the loader produces a record for exactly the rows of the sheet that
\* have a non-empty display name, in the order of the sheet; a row whose
\* display name is missing or empty produces no record.
C16_NamelessRowsDropped ==
    [][\A name \in FileNames, rows \in CountFiles :
            HandleFileImportForExcelCheck(name, rows)
            => /\ Len(excelCheckItems') = Len(NamedRows(rows))
               /\ \A i \in 1..Len(excelCheckItems') :
                      excelCheckItems'[i].productName = NamedRows(rows)[i].TenSanPham]_vars

\* C17: a load that yields no record ends in a load-error state of its own:
\* the checklist page shows neither what it shows before any load (the guide)
\* nor what it shows when records are loaded and the filters match none of
\* them.
C17_EmptyLoadDistinguished ==
    [][(/\ \E name \in FileNames, rows \in InvFiles : HandleFileImport(name, rows)
        /\ currentPage = "kiem-ke"
        /\ Len(inventoryItems') = 0)
       => ChecklistPanel' \notin {"guide", "noProductMatchesFilter"}]_vars

\* the elements of a set of indices in ascending order
RECURSIVE Ascending(_)
Ascending(S) == IF S = {} THEN <<>> ELSE <<Lowest(S)>> \o Ascending(S \ {Lowest(S)})

\* C18: on the search page, for a query of length > 1 the suggestion list is
\* the first records, at most SuggestionLimit of them and in load order, whose
\* display name contains the query without regard to letter case; for a query
\* of length <= 1 it is empty. The query is the text of the search input,
\* normalised as for a submit (trimmed, lower-cased).
C18_SuggestionsAreNameMatches ==
    currentPage = "kiem-tra-ton-kho"
    => suggestions =
           IF Len(NormalisedQuery) > 1
           THEN LET matches == Ascending(NameRows(inventoryItems, NormalisedQuery)) IN
                SubSeq(matches, 1, IF Len(matches) < 7 THEN Len(matches) ELSE 7)
           ELSE <<>>

\* the filters, one by one
ImeiFilterHolds(item) ==
    \/ imeiFilter = "all"
    \/ imeiFilter = "with_imei" /\ item.hasImei
    \/ imeiFilter = "without_imei" /\ ~item.hasImei
StatusFilterHolds(item) == statusFilter = <<"all">> \/ item.status = statusFilter
CategoryFilterHolds(item) == categoryFilter = <<"all">> \/ item.category = categoryFilter

\* C19: the filtered view is the subsequence, in load order, of the records
\* that satisfy the IMEI filter, the status filter and the category filter at
\* once; with the three filters at 'all' it is the whole list.
C19_FilteredViewIsSubsequence ==
    /\ filteredInventoryItems
           = Ascending({i \in 1..Len(inventoryItems) :
                            /\ ImeiFilterHolds(inventoryItems[i])
                            /\ StatusFilterHolds(inventoryItems[i])
                            /\ CategoryFilterHolds(inventoryItems[i])})
    /\ (imeiFilter = "all" /\ statusFilter = <<"all">> /\ categoryFilter = <<"all">>)
       => filteredInventoryItems = [i \in 1..Len(inventoryItems) |-> i]

\* two filters in force, the view skipping the record in the middle
C19_Witness ==
    /\ imeiFilter = "without_imei" /\ statusFilter # <<"all">>
    /\ Len(inventoryItems) = 3
    /\ filteredInventoryItems = <<1, 3>>

\* the load generation: the records without their verification state
CountGeneration(items) == [i \in 1..Len(items) |-> [items[i] EXCEPT !.actualQuantity = Null]]
InventoryGeneration(items) == [i \in 1..Len(items) |-> [items[i] EXCEPT !.checked = FALSE]]

\* a step that builds or discards a generation
LoadOrReset ==
    \/ \E name \in FileNames, rows \in CountFiles : HandleFileImportForExcelCheck(name, rows)
    \/ \E name \in FileNames, rows \in InvFiles : HandleFileImport(name, rows)
    \/ HandleExcelCheckReset
    \/ HandleInventoryReset

\* C20: between two loads the generation is immutable: a step that is not a
\* load or a reset (a scan, a manual edit, a toggle, a filter change, a query,
\* a render) leaves the number and the order of the records and every field of
\* every record other than its verification state as they were.
C20_GenerationImmutable ==
    [][~LoadOrReset
       => /\ CountGeneration(excelCheckItems') = CountGeneration(excelCheckItems)
          /\ InventoryGeneration(inventoryItems') = InventoryGeneration(inventoryItems)]_vars

\* a count session after successful scans of two codes
C20_Witness ==
    /\ Len(excelCheckItems) = MaxRows
    /\ ~scanRun.pure
    /\ \A i \in 1..Len(excelCheckItems) : excelCheckItems[i].actualQuantity # Null
    /\ excelCheckItems[1].actualQuantity # excelCheckItems[2].actualQuantity
    /\ scanStatus.type = "success"

\* the unverified records of a filtered subset at the positions in a range
UnverifiedAt(items, subset, positions) ==
    {q \in positions : q \in 1..Len(subset) /\ ~items[subset[q]].checked}

\* the navigation target the statement asks for, 0 for none: forward from
\* position p, then from the start of the subset up to p
TargetAfter(items, subset, originalIndex) ==
    LET at == {q \in 1..Len(subset) : subset[q] = originalIndex} IN
    IF at = {} THEN 0
    ELSE LET p == Lowest(at)
             after == UnverifiedAt(items, subset, (p + 1)..Len(subset))
             before == UnverifiedAt(items, subset, 1..(p - 1))
         IN  IF after # {} THEN subset[Lowest(after)]
             ELSE IF before # {} THEN subset[Lowest(before)]
             ELSE 0

\* C21: after a toggle of the record at position p of the filtered subset the
\* navigation target is the first unverified record after p in the subset, or
\* else the first unverified record before p, or else none; the toggled
\* record is never the target.
C21_NavigationTarget ==
    [][\A originalIndex \in 1..Len(inventoryItems) :
        HandleCheckItem(originalIndex)
        => /\ scrollTarget' = TargetAfter(inventoryItems', filteredInventoryItems',
                                          originalIndex)
           /\ scrollTarget' # originalIndex]_vars

\* a toggle whose target was found by wrapping around, under a filter
C21_Witness ==
    /\ lastToggle.index # 0 /\ scrollTarget # 0
    /\ scrollTarget < lastToggle.index
    /\ Len(filteredInventoryItems) < Len(inventoryItems)

\* C22: the navigation search runs only after a toggle to verified: a toggle
\* that takes a record from verified back to unverified selects no target.
C22_NoTargetOnUnverify ==
    [][\A originalIndex \in 1..Len(inventoryItems) :
        (HandleCheckItem(originalIndex) /\ inventoryItems[originalIndex].checked)
        => scrollTarget' = 0]_vars

\* the normal form of a query: trimmed, one leading quote stripped, lower case
FullyNormalised(q) == ToLowerCase(StripQuote(Trim(q)))

\* the record a key resolves to on the search page / on the count page
SearchKeyRecord(items, key) == Lowest(AltKeyRows(items, key) \cup PrimaryKeyRows(items, key))
ScanKeyRecord(items, key) ==
    IF ProductCodeRows(items, key) # {} THEN Lowest(ProductCodeRows(items, key))
    ELSE Lowest(ImeiRows(items, key))

\* C23: a query is normalised by trimming, stripping one leading quote and
\* case-folding before it is matched: a submitted query whose normal form is
\* a key of some record resolves to the record the key itself resolves to,
\* on the search page and on the count page.
C23_NormalisedQueryResolves ==
    [][/\ (/\ SearchSubmitted
           /\ AltKeyRows(inventoryItems, FullyNormalised(searchQuery))
                  \cup PrimaryKeyRows(inventoryItems, FullyNormalised(searchQuery)) # {})
          => /\ searchHistory'[1].result # Null
             /\ searchHistory'[1].result.index
                    = SearchKeyRecord(inventoryItems, FullyNormalised(searchQuery))
       /\ (/\ ScanSubmitted
           /\ ProductCodeRows(excelCheckItems, FullyNormalised(scanQuery))
                  \cup ImeiRows(excelCheckItems, FullyNormalised(scanQuery)) # {})
          => LET r == ScanKeyRecord(excelCheckItems, FullyNormalised(scanQuery)) IN
             /\ excelCheckItems'[r].actualQuantity # Null
             /\ excelCheckItems'[r].actualQuantity # excelCheckItems[r].actualQuantity]_vars

\* C24: a scan never matches by display name: a scanned string that is, or
\* is contained in, the display name of some record (as typed or in its
\* normal form) and is the product code or the IMEI of no record increments
\* nothing and yields the no-match status.
C24_ScanIgnoresNames ==
    [][(/\ ScanSubmitted
        /\ NoScanMatch
        /\ \E i \in 1..Len(excelCheckItems) :
               \/ Includes(excelCheckItems[i].productName, Trim(scanQuery))
               \/ Includes(ToLowerCase(excelCheckItems[i].productName), SanitisedScan))
       => /\ excelCheckItems' = excelCheckItems
          /\ excelCheckStats' = excelCheckStats
          /\ scanStatus'.type = "error" /\ scanStatus'.text = "notFound"]_vars

\* the scan of a display name, reported as not found
C24_Witness ==
    /\ scanStatus.type = "error" /\ scanStatus.arg = S_loa
    /\ \E i \in 1..Len(excelCheckItems) : excelCheckItems[i].productName = S_loa
    /\ \A i \in 1..Len(excelCheckItems) : excelCheckItems[i].actualQuantity = Null

\* C25: in every state of the count page the total expected quantity is the
\* sum of fileQuantity over all records, scanned or not, and the total actual
\* quantity is the sum of actualQuantity over the records whose
\* actualQuantity is not null.
C25_TotalsAreSums ==
    /\ excelCheckStats.totalFileQuantity
           = SumOf(excelCheckItems, "fileQuantity")
    /\ excelCheckStats.totalActualQuantity
           = SumOf(SelectSeq(excelCheckItems, LAMBDA item : item.actualQuantity # Null),
                   "actualQuantity")

\* one record counted, the other never observed
C25_Witness ==
    /\ Len(excelCheckItems) = 2
    /\ Cardinality(Observed(excelCheckItems)) = 1
    /\ excelCheckStats.totalActualQuantity = Num(2)
    /\ excelCheckStats.totalFileQuantity = Num(8)

\* the records observed with a quantity other than the expected one
MismatchedRows(items) ==
    {i \in 1..Len(items) :
        items[i].actualQuantity # Null /\ items[i].actualQuantity # items[i].fileQuantity}

\* C26: the mismatched list holds exactly the records whose actualQuantity is
\* not null and differs from the expected quantity, in load order; a record
\* never observed is not in it, and a record whose actualQuantity equals its
\* expected quantity is not in it.
C26_MismatchedList ==
    LET rows == Ascending(MismatchedRows(excelCheckItems)) IN
    /\ mismatchedItems = [k \in 1..Len(rows) |-> excelCheckItems[rows[k]]]
    /\ \A k \in 1..Len(mismatchedItems) :
           /\ mismatchedItems[k].actualQuantity # Null
           /\ mismatchedItems[k].actualQuantity # mismatchedItems[k].fileQuantity

\* a record scanned up to its expected quantity: it was listed after the first
\* scans and has left the list
C26_Witness ==
    /\ scanRun.pure /\ scanRun.n = MaxQty
    /\ Len(excelCheckItems) = 2
    /\ \E i \in 1..Len(excelCheckItems) :
           /\ excelCheckItems[i].actualQuantity = Num(MaxQty)
           /\ excelCheckItems[i].fileQuantity = Num(MaxQty)
    /\ mismatchedItems = <<>>

\* a JavaScript number that is an integer >= 0 (the model's numbers are
\* integers or NaN)
IsCount(x) == IsNum(x) /\ x.v >= 0

\* C27: every loaded record has an expected quantity that is an integer >= 0:
\* a quantity cell that does not parse yields 0, never NaN or a negative
\* value, and the total expected quantity is an integer >= 0.
C27_ExpectedQuantityIsCount ==
    /\ \A i \in 1..Len(excelCheckItems) : IsCount(excelCheckItems[i].fileQuantity)
    /\ \A i \in 1..Len(inventoryItems) : IsCount(inventoryItems[i].quantity)
    /\ IsCount(excelCheckStats.totalFileQuantity)

\* actualQuantity read as a count: null counts as 0
CountOf(q) == IF q = Null THEN 0 ELSE q.v

ManualEdit ==
    \E index \in 1..Len(excelCheckItems), value \in EditValues :
        HandleActualQuantityChange(index, value)

\* C28: scanning accumulates: a successful scan sets the actualQuantity of the
\* matched record to its previous value plus 1 (null counts as 0, a value
\* entered by hand counts as it is) and leaves the other records alone; and
\* between loads no step other than a manual edit lowers an actualQuantity or
\* returns it to null.
C28_ScanAccumulates ==
    [][/\ ((HandleScanSubmitUnrendered \/ ScanSubmitted) /\ ~NoScanMatch)
          => LET r == ScanKeyRecord(excelCheckItems, SanitisedScan) IN
             /\ excelCheckItems'[r].actualQuantity
                    = Num(CountOf(excelCheckItems[r].actualQuantity) + 1)
             /\ \A i \in 1..Len(excelCheckItems) :
                    i # r => excelCheckItems'[i] = excelCheckItems[i]
       /\ (~LoadOrReset /\ ~ManualEdit)
          => \A i \in 1..Len(excelCheckItems) :
                 /\ excelCheckItems[i].actualQuantity # Null
                        => excelCheckItems'[i].actualQuantity # Null
                 /\ CountOf(excelCheckItems'[i].actualQuantity)
                        >= CountOf(excelCheckItems[i].actualQuantity)]_vars

\* a scan on top of a value entered by hand: the only record of the list
\* holds MaxQty after a session that was not a run of scans of one key
C28_Witness ==
    /\ Len(excelCheckItems) = 1
    /\ ~scanRun.pure
    /\ scanStatus.type = "success"
    /\ excelCheckItems[1].actualQuantity = Num(MaxQty)
    /\ excelCheckItems[1].fileQuantity = Num(2)

SearchTyped == \E q \in SearchInputs : SearchInputChange(q)
SuggestionPicked == \E k \in 1..SuggestionLimit : HandleSuggestionClick(k)

\* C29: computing suggestions is read-only: typing into the search input
\* changes neither the query history nor any record nor any verification
\* state, and a history entry is added only by a search submit or by the pick
\* of a suggestion.
C29_SuggestionsReadOnly ==
    [][/\ SearchTyped
          => /\ searchHistory' = searchHistory
             /\ inventoryItems' = inventoryItems
             /\ excelCheckItems' = excelCheckItems
       /\ Len(searchHistory') > Len(searchHistory)
          => /\ SearchSubmitted \/ SuggestionPicked
             /\ Len(searchHistory') = Len(searchHistory) + 1
             /\ SubSeq(searchHistory', 2, Len(searchHistory')) = searchHistory]_vars

\* suggestions on display for the typed text, the history holding one entry,
\* made by the pick of a suggestion
C29_Witness ==
    /\ Len(suggestions) = 2
    /\ Len(searchHistory) = 1
    /\ searchHistory[1].query = S_TV

\* C30: whenever no file import is in flight, the file name on display names
\* the file from which the record list on display was built; with two imports
\* started back to back, their reads completing in either order, and after an
\* import whose file does not parse.
C30_FileNameNamesSource ==
    pendingReads = {} => fileName = builtFrom


\* C31: the last-scanned highlight is cleared only by the timer of the scan
\* that set it: a timer that fires while the timer of a later scan is still
\* pending leaves the highlight alone, and after a load or a reset no row of
\* the new record list carries a highlight.
C31_HighlightOwnedByScan ==
    [][/\ (HighlightTimeout /\ highlightTimers > 1)
          => lastScannedIndex' = lastScannedIndex
       /\ LoadOrReset
          => lastScannedIndex' \notin 1..Len(excelCheckItems')]_vars


\* the source row of a record carries a product code / an IMEI: the load puts
\* the text 'N/A' in place of a missing product code and undefined in place
\* of a missing IMEI, and no row of CountRows has the text 'N/A' as its code
HasProductCode(item) == item.productCode # NA
HasImei(item) == item.imei # Undefined

\* C32: a scan increments a record only when the scanned code equals a product
\* code or an IMEI that is present in the source row of the record: a record
\* loaded from a row without a product code is never matched through the
\* placeholder the load put in its place.
C32_MatchesSourceKeysOnly ==
    /\ [](\A row \in CountRows :
              LoadExcelCheckRow(row).productCode = NA <=> findValue(row, "MaSanPham") = Undefined)
    /\ [][ScanSubmitted
          => \A i \in 1..Len(excelCheckItems) :
                excelCheckItems'[i].actualQuantity # excelCheckItems[i].actualQuantity
                => \/ /\ HasProductCode(excelCheckItems[i])
                      /\ cleanString(excelCheckItems[i].productCode) = SanitisedScan
                   \/ /\ HasImei(excelCheckItems[i])
                      /\ cleanString(excelCheckItems[i].imei) = SanitisedScan]_vars


\* C33: in count mode, in every state reached from a load by scans only (no
\* quantity entered by hand), the total actual quantity equals the number of
\* successful scans since that load, and the actualQuantity of every record
\* is null or an integer >= 1.
C33_TotalCountsScans ==
    ~scanRun.edited
    => /\ excelCheckStats.totalActualQuantity = Num(scanRun.scans)
       /\ TotalActual(excelCheckItems) = Num(scanRun.scans)
       /\ \A i \in 1..Len(excelCheckItems) :
              \/ excelCheckItems[i].actualQuantity = Null
              \/ /\ IsNum(excelCheckItems[i].actualQuantity)
                 /\ excelCheckItems[i].actualQuantity.v >= 1

\* two records counted by scans of two keys, a miss in between, three
\* successful scans in all
C33_Witness ==
    /\ ~scanRun.edited /\ ~scanRun.pure /\ scanRun.scans = 3
    /\ Len(excelCheckItems) = 2
    /\ excelCheckItems[1].actualQuantity = Num(2)
    /\ excelCheckItems[2].actualQuantity = Num(1)
    /\ scanStatus.type = "error"


\* C34: in every reachable count-mode state, matchedCount + mismatchedCount
\* equals the number of records whose actualQuantity is not null, so it never
\* exceeds the number of records, and mismatchedCount equals the length of
\* the mismatched list.
C34_CountsPartitionObserved ==
    /\ excelCheckStats.matchedCount + excelCheckStats.mismatchedCount
           = Cardinality(Observed(excelCheckItems))
    /\ excelCheckStats.matchedCount + excelCheckStats.mismatchedCount
           <= Len(excelCheckItems)
    /\ excelCheckStats.mismatchedCount = Len(mismatchedItems)

\* one record matched and one mismatched whose expected quantity is not a
\* number, so that its difference is neither zero, positive nor negative
C34_Witness ==
    /\ Len(excelCheckItems) = 2
    /\ excelCheckStats.matchedCount = 1
    /\ excelCheckStats.mismatchedCount = 1
    /\ UndefinedDifferenceRows(excelCheckItems) # {}
    /\ Len(mismatchedItems) = 1


\* the records whose verification state a step changes: the rows of the count
\* list whose actualQuantity differs, the rows of the checklist whose verified
\* flag differs
CountChanged ==
    {i \in 1..Len(excelCheckItems) :
        i > Len(excelCheckItems')
        \/ excelCheckItems'[i].actualQuantity # excelCheckItems[i].actualQuantity}
ChecklistChanged ==
    {i \in 1..Len(inventoryItems) :
        i > Len(inventoryItems')
        \/ inventoryItems'[i].checked # inventoryItems[i].checked}

\* C35 as stated: each verification event changes the verification state of
\* exactly one record: a toggle the verified flag of the targeted record, a
\* successful scan the actualQuantity of the matched record, a manual edit the
\* actualQuantity of the edited record; no other record changes.
C35_ExactlyOneRecord ==
    [][/\ \A originalIndex \in 1..Len(inventoryItems) :
              HandleCheckItem(originalIndex)
              => ChecklistChanged = {originalIndex} /\ CountChanged = {}
       /\ (ScanSubmitted /\ ~NoScanMatch)
              => /\ CountChanged = {ScanFoundIndex(excelCheckItems, SanitisedScan)}
                 /\ ChecklistChanged = {}
       /\ \A index \in 1..Len(excelCheckItems), value \in EditValues :
              HandleActualQuantityChange(index, value)
              => CountChanged = {index} /\ ChecklistChanged = {}]_vars

\* C35 amended: a verification event changes the verification state of no
\* record other than its target: a toggle changes the verified flag of the
\* targeted record, a successful scan the actualQuantity of the matched
\* record, and a manual edit the actualQuantity of the edited record unless
\* the entered text stands for the value the record already holds.
C35_OnlyTheTarget ==
    [][/\ \A originalIndex \in 1..Len(inventoryItems) :
              HandleCheckItem(originalIndex)
              => ChecklistChanged = {originalIndex} /\ CountChanged = {}
       /\ (ScanSubmitted /\ ~NoScanMatch)
              => /\ CountChanged = {ScanFoundIndex(excelCheckItems, SanitisedScan)}
                 /\ ChecklistChanged = {}
       /\ \A index \in 1..Len(excelCheckItems), value \in EditValues :
              HandleActualQuantityChange(index, value)
              => /\ CountChanged =
                        IF EditedQuantity(value) = excelCheckItems[index].actualQuantity
                        THEN {} ELSE {index}
                 /\ ChecklistChanged = {}]_vars

\* a count list of two records, the first counted by a scan and the second
\* left as it was by a manual edit whose text stands for no quantity
C35_Witness ==
    /\ Len(excelCheckItems) = 2
    /\ scanRun.edited
    /\ excelCheckItems[1].actualQuantity = Num(1)
    /\ excelCheckItems[2].actualQuantity = Null
    /\ lastScannedIndex = 1
    /\ scanStatus.type = "success"


\* a text that is empty or made of whitespace only
Blank(s) == \A i \in 1..Len(s) : IsSpace(s[i])

\* C36: submitting an empty or whitespace-only query is a complete no-op: an
\* empty scan changes no quantity, not the scan status and nothing else of the
\* state, and an empty search adds no history entry and changes nothing else.
C36_EmptySubmitIsNoOp ==
    /\ Blank(scanQuery) => ~ENABLED (HandleScanSubmit /\ vars' # vars)
    /\ Blank(searchQuery) => ~ENABLED (HandleSearchSubmit /\ vars' # vars)

\* the scan form can be submitted with a whitespace-only text in the input,
\* over a list with a record already counted
C36_Witness ==
    /\ ENABLED HandleScanSubmit
    /\ scanQuery # <<>> /\ Blank(scanQuery)
    /\ Observed(excelCheckItems) # {}


\* the later duplicates of a count list: the records that share their primary
\* key (the product code as the scan compares it) with a record before them
\* and carry no alternate key (IMEI) that no record before them carries
LaterDuplicates(items) ==
    {j \in 1..Len(items) :
        /\ \E i \in 1..(j - 1) :
               cleanString(items[i].productCode) = cleanString(items[j].productCode)
        /\ \/ ~HasImei(items[j])
           \/ \E i \in 1..(j - 1) : cleanString(items[i].imei) = cleanString(items[j].imei)}

\* C37: when records share a primary key and the later ones have no distinct
\* alternate key, no sequence of scans changes the actualQuantity of a later
\* duplicate: it stays null until it is edited by hand, and every scan of the
\* shared key accumulates on the first record that carries it.
C37_LaterDuplicateUntouched ==
    /\ [](~scanRun.edited
          => \A j \in LaterDuplicates(excelCheckItems) :
                 excelCheckItems[j].actualQuantity = Null)
    /\ [][ScanSubmitted
          => \A j \in LaterDuplicates(excelCheckItems) :
                /\ excelCheckItems'[j].actualQuantity = excelCheckItems[j].actualQuantity
                /\ SanitisedScan = cleanString(excelCheckItems[j].productCode)
                   => LET first == Lowest(ProductCodeRows(excelCheckItems, SanitisedScan)) IN
                      /\ first < j
                      /\ excelCheckItems'[first].actualQuantity
                             = Num(CountOf(excelCheckItems[first].actualQuantity) + 1)]_vars

\* two records with the product code A1, written differently in the sheet,
\* after two scans of it with a miss in between: both scans are on the first
C37_Witness ==
    /\ LaterDuplicates(excelCheckItems) = {2}
    /\ ~scanRun.edited /\ ~scanRun.pure /\ scanRun.scans = 2
    /\ excelCheckItems[1].productCode # excelCheckItems[2].productCode
    /\ excelCheckItems[1].actualQuantity = Num(2)
    /\ excelCheckItems[2].actualQuantity = Null
    /\ lastScannedIndex = 1


\* an authenticated user who is neither admin nor VIP
Restricted ==
    isAuthenticated /\ currentUser.role # "admin" /\ currentUser.tier # "vip"

\* C38: for an authenticated user who is neither admin nor VIP, a feature
\* click never sets the current page to a paid feature (the click of a paid
\* feature is refused and leaves the page as it is), such a user is never on
\* a paid feature, and the access effect sends to the home page whoever it
\* finds on a paid feature without the tier for it, as after the expiry of a
\* VIP tier found at a login or at a session restore.
C38_PaidPagesNeedTier ==
    /\ [](Restricted => currentPage \notin paidFeatures)
    /\ [](\A username \in Usernames, expired \in BOOLEAN, page \in paidFeatures :
              LET user == VipChecked(Account(username), expired) IN
              (user.role # "admin" /\ user.tier # "vip")
              => TierAccess(TRUE, user, page) = "trang-chu")
    /\ [][\A page \in FeaturePages :
              (Restricted /\ HandleFeatureClick(page))
              => /\ currentPage' \notin paidFeatures
                 /\ page \in paidFeatures
                        => currentPage' = currentPage /\ lastRefused' = page
                 /\ page \notin paidFeatures => currentPage' = page]_vars

\* the session of the VIP account restored after the expiry of its tier: the
\* user is on a free feature and the click of a paid feature was refused
C38_Witness ==
    /\ Restricted
    /\ currentUser.username = "vip" /\ savedUser.tier = "vip" /\ vipExpired
    /\ currentPage = "kiem-ke"
    /\ lastRefused = "kiem-hang-chuyen-kho"

====
